---- MODULE Spec2Model ----
(***************************************************************************)
(* A model of redlimit: the `limiting` stored procedure of the backend     *)
(* script module (src/src/redlimit_lua.rs) acting on one counter key, and  *)
(* the rule resolver RedRules (src/src/redlimit.rs).                       *)
(*                                                                         *)
(* Time is the backend's millisecond clock.  One script call is one        *)
(* atomic step (the backend runs scripts single-threaded), so the calls of *)
(* any number of service instances appear as one sequence of steps.        *)
(***************************************************************************)
EXTENDS Integers, Sequences, FiniteSets, TLC

VARIABLES
    clock,      \* the backend's time in ms (redis TIME, and the clock of key expiry)
    key,        \* the counter key K: [present, c, b, t, exp], exp the absolute expiry time
    call,       \* the last `limiting` script call: its args, the key before it, its result
    born,       \* history: the time and the period argument of the call that created the key
    params,     \* the fixed LimitArgs of specification SpecWindow (NoParams elsewhere)
    adm,        \* history: adm[u] is the sum of quantity admitted at time u
    lifeAdm,    \* history: the sum of quantity admitted since the key was created
    burstAdm,   \* history: the sum of quantity admitted since the burst window (re)started
    retry,      \* history: the last rejection's retry time, and whether a retry after it was admitted
    rr,         \* the resolver RedRules: [floor, defaut, rules], fixed at construction
    dyn_rules,  \* RedRules.dyn_rules: [redrules, redlist, redlist_cursor], under the RwLock
    seen,       \* the resolver operation holding the lock: its inputs and its result
    passed,     \* history: the largest cursor ever passed to dyn_update
    req,        \* the /limiting request being served: its inputs, its backend call, its answer
    lock,       \* the RwLock of dyn_rules: [writer, readers]
    wr,         \* the dyn_update call in progress: its inputs and the statement it is at
    rd,         \* the resolver read in progress: its operation and the fields it has read
    lc,         \* the sorted set NS:LC: member -> cursor-score
    lt,         \* the sorted set NS:LT: member -> ttl-score
    lcall,      \* the last script call on the redlist: its inputs and its result
    load,       \* the sync worker's redlist_load: its cursor, its result so far, its position
    returned,   \* history: the members a scan has returned with the cursor-score they have now
    rtab,       \* the backend's redrules: [rt, rd], the sorted set NS:RT and the hash NS:RD
    rcall,      \* the last redrules script call: its time, its args, the state before, its reply
    fnlib,      \* the script library loaded in the backend under the name redlimit, or "none"
    running,    \* the number of redlimit_sync_job calls started and not yet returned
    stop,       \* the worker's cancellation token
    page,       \* the build's page sizes: [limit, count], the LIMIT of the scan and REDLIST_SCAN_COUNT
    nap         \* whether the sleep of the worker's select can end: it was started with the token not cancelled

limVars == <<clock, key, call, born>>
histVars == <<params, adm, lifeAdm, burstAdm, retry>>
resVars == <<rr, dyn_rules, seen, passed>>
svcVars == <<req>>
lockVars == <<lock, wr, rd>>
listVars == <<lc, lt, lcall, load, returned>>
syncVars == <<rtab, rcall, fnlib, running, stop, page, nap>>
vars == <<clock, key, call, born, params, adm, lifeAdm, burstAdm, retry, rr, dyn_rules, seen, passed,
          req, lock, wr, rd, lc, lt, lcall, load, returned,
          rtab, rcall, fnlib, running, stop, page, nap>>

----------------------------------------------------------------------------
(* Bounds of the model. *)
MaxTime == 6
MaxQuantity == 2
MaxCount == 3
MaxPeriod == 3
MaxBurst == 2
MaxBurstPeriod == 2
MaxNow == 1
MaxCursor == 1
WaitStep == 50
MaxTtl == 1
MaxListTime == 1

(* burst_period when args[5] is absent: redlimit_lua.rs line 16. *)
DefaultBurstPeriod == 1000

Min(a, b) == IF a <= b THEN a ELSE b

RECURSIVE SumTo(_, _, _)
(* f[lo] + ... + f[hi] *)
SumTo(f, lo, hi) == IF lo > hi THEN 0 ELSE f[lo] + SumTo(f, lo + 1, hi)

----------------------------------------------------------------------------
(* The backend key.  A redis key with expiry `exp` exists while            *)
(* now <= exp: it is expired once now > exp, and PTTL reads exp - now,     *)
(* which is 0 in the key's last millisecond (the case lines 52-55 of the   *)
(* script handle).                                                         *)
Absent == [present |-> FALSE, c |-> 0, b |-> 0, t |-> 0, exp |-> 0]

NoCall == [made |-> FALSE]
NoBorn == [at |-> 0, period |-> 0]
NoParams == <<>>

(* tonumber(args[i]) or d *)
ArgOr(args, i, d) == IF Len(args) >= i THEN args[i] ELSE d

(* redis.call('PTTL', keys[1]) on an existing key *)
PTTL(k, ts) == k.exp - ts

(* mutant of BurstRestarts: the window restarts one millisecond late *)
BurstRestarts_late(k, ts, burst_period) == k.t + burst_period < ts

(* lines 38-41: the burst window has ended, so it restarts at ts *)
BurstRestarts(k, ts, burst_period) == k.t + burst_period <= ts

(* mutant of NewBurst: the burst count is never reset *)
NewBurst_keeps(k, ts, quantity, burst_period) == k.b + quantity

(* lines 36-40: the burst count and burst start the call would commit *)
NewBurst(k, ts, quantity, burst_period) ==
    IF BurstRestarts(k, ts, burst_period) THEN quantity ELSE k.b + quantity

NewBurstAt(k, ts, burst_period) ==
    IF BurstRestarts(k, ts, burst_period) THEN ts ELSE k.t

(* mutant of BurstExceeded: the burst cap is compared one too high *)
BurstExceeded_lax(k, ts, quantity, max_burst, burst_period) ==
    /\ ~BurstRestarts(k, ts, burst_period)
    /\ k.b + quantity > max_burst + 1

(* line 41: elseif burst > max_burst *)
BurstExceeded(k, ts, quantity, max_burst, burst_period) ==
    /\ ~BurstRestarts(k, ts, burst_period)
    /\ k.b + quantity > max_burst

(* mutant of RejectBurst: the burst is counted before it is checked *)
RejectBurst_counts(k, ts, burst_period) ==
    [result |-> <<k.c, k.t + burst_period - ts>>, key |-> [k EXCEPT !.b = k.b + 1]]

(* lines 42-44: the burst rejection *)
RejectBurst(k, ts, burst_period) ==
    [result |-> <<k.c, k.t + burst_period - ts>>, key |-> k]

(* mutant of PeriodFull: the period cap is compared one too high *)
PeriodFull_lax(count, max_count) == count > max_count + 1

(* line 48: if result[1] > max_count *)
PeriodFull(count, max_count) == count > max_count

(* mutant of RejectPeriod: the key is kept in its last millisecond *)
RejectPeriod_keeps(k, ts) ==
    [result |-> <<k.c, IF PTTL(k, ts) <= 0 THEN 1 ELSE PTTL(k, ts)>>, key |-> k]

(* lines 49-55: the period-full rejection *)
RejectPeriod(k, ts) ==
    IF PTTL(k, ts) <= 0
    THEN [result |-> <<k.c, 1>>, key |-> Absent]
    ELSE [result |-> <<k.c, PTTL(k, ts)>>, key |-> k]

(* mutant of Commit: the commit pushes the expiry of the key *)
Commit_extends(k, count, burst, burst_at, max_burst) ==
    [result |-> <<count, 0>>,
     key |-> [k EXCEPT !.c = count, !.b = burst, !.t = burst_at, !.exp = k.exp + 1]]

(* mutant of Commit: the count before the increment is returned *)
Commit_oldcount(k, count, burst, burst_at, max_burst) ==
    [result |-> <<k.c, 0>>,
     key |-> [k EXCEPT !.c = count,
                       !.b = IF max_burst > 0 THEN burst ELSE k.b,
                       !.t = IF max_burst > 0 THEN burst_at ELSE k.t]]

(* lines 56-60: the commit on an existing key; HSET leaves the expiry alone *)
Commit(k, count, burst, burst_at, max_burst) ==
    IF max_burst > 0
    THEN [result |-> <<count, 0>>,
          key |-> [k EXCEPT !.c = count, !.b = burst, !.t = burst_at]]
    ELSE [result |-> <<count, 0>>, key |-> [k EXCEPT !.c = count]]

(* mutant of FreshKey: the burst fields are not stored *)
FreshKey_noburst(ts, quantity, period, max_burst) ==
    [result |-> <<quantity, 0>>,
     key |-> [present |-> TRUE, c |-> quantity, b |-> 0, t |-> 0,
              exp |-> ts + period]]

(* lines 62-70: the fresh key *)
FreshKey(ts, quantity, period, max_burst) ==
    [result |-> <<quantity, 0>>,
     key |-> [present |-> TRUE,
              c |-> quantity,
              b |-> IF max_burst > 0 THEN quantity ELSE 0,
              t |-> IF max_burst > 0 THEN ts ELSE 0,
              exp |-> ts + period]]

(* lines 11-73: the stored procedure `limiting` on key k at time ts *)
limiting(k, ts, args) ==
    LET quantity == ArgOr(args, 1, 1)
        max_count == ArgOr(args, 2, 0)
        period == ArgOr(args, 3, 0)
        max_burst == ArgOr(args, 4, 0)
        burst_period == ArgOr(args, 5, DefaultBurstPeriod)
    IN  IF quantity > max_count
        THEN [result |-> <<quantity, 1>>, key |-> k]
        ELSE IF k.present
        THEN IF max_burst > 0 /\ BurstExceeded(k, ts, quantity, max_burst, burst_period)
             THEN RejectBurst(k, ts, burst_period)
             ELSE IF PeriodFull(k.c + quantity, max_count)
             THEN RejectPeriod(k, ts)
             ELSE Commit(k, k.c + quantity,
                         NewBurst(k, ts, quantity, burst_period),
                         NewBurstAt(k, ts, burst_period), max_burst)
        ELSE FreshKey(ts, quantity, period, max_burst)

----------------------------------------------------------------------------
(* The argument lists the script is called with:                           *)
(* <quantity> <max count> <period> [<max burst> [<burst period>]]          *)
Quantities == 1..MaxQuantity
Counts == 1..MaxCount
Periods == 2..MaxPeriod
Bursts == 1..MaxBurst
BurstPeriods == 1..MaxBurstPeriod

ScriptArgs ==
    {<<q, m, p>> : q \in Quantities, m \in Counts, p \in Periods}
    \cup {<<q, m, p, mb>> : q \in Quantities, m \in Counts, p \in Periods, mb \in Bursts}
    \cup {a \in Quantities \X Counts \X Periods \X Bursts \X BurstPeriods : a[5] <= a[3]}

(* One call of the script on key K at the current time; the script runs   *)
(* to its end before the next call starts.                                 *)
LimitingCall(args) ==
    LET out == limiting(key, clock, args)
    IN  /\ ~call.made
        /\ call' = [made |-> TRUE, args |-> args, pre |-> key, result |-> out.result]
        /\ key' = out.key
        /\ born' = IF ~key.present /\ out.key.present
                   THEN [at |-> clock, period |-> ArgOr(args, 3, 0)]
                   ELSE IF out.key.present THEN born ELSE NoBorn
        /\ UNCHANGED clock

(* A millisecond passes; the backend drops the key once its expiry time is past. *)
Tick ==
    /\ clock < MaxTime
    /\ clock' = clock + 1
    /\ key' = IF key.present /\ clock + 1 > key.exp THEN Absent ELSE key
    /\ born' = IF key.present /\ clock + 1 > key.exp THEN NoBorn ELSE born
    /\ call' = NoCall

(* The caller receives the result of the script. *)
Reply ==
    /\ call.made
    /\ call' = NoCall
    /\ UNCHANGED <<clock, key, born>>

InitLimiter ==
    /\ clock = 0
    /\ key = Absent
    /\ call = NoCall
    /\ born = NoBorn

(* No rejection is waiting for its retry, and no retry has been made. *)
NoRetry == [waiting |-> FALSE, due |-> 0, judged |-> "none"]

InitHist ==
    /\ params = NoParams
    /\ adm = [u \in 0..MaxTime |-> 0]
    /\ lifeAdm = 0
    /\ burstAdm = 0
    /\ retry = NoRetry

(* Script calls with any well-formed argument list, changing from call to call. *)
ScriptCall ==
    \E args \in ScriptArgs : LimitingCall(args) /\ UNCHANGED <<histVars, resVars, svcVars, lockVars, listVars, syncVars>>

TickLimiter == Tick /\ UNCHANGED <<histVars, resVars, svcVars, lockVars, listVars, syncVars>>

ReplyLimiter == Reply /\ UNCHANGED <<histVars, resVars, svcVars, lockVars, listVars, syncVars>>

----------------------------------------------------------------------------
(* mutant of is_valid: the period has no upper limit *)
is_valid_nocap(a) ==
    /\ a[1] > 0
    /\ a[1] <= a[2]
    /\ a[3] > 0
    /\ (a[4] = 0 \/ a[1] <= a[4])
    /\ (a[5] = 0 \/ a[5] <= a[3])

(* LimitArgs::is_valid, redlimit.rs lines 186-193 *)
is_valid(a) ==
    /\ a[1] > 0
    /\ a[1] <= a[2]
    /\ a[3] > 0
    /\ a[3] <= 60 * 1000
    /\ (a[4] = 0 \/ a[1] <= a[4])
    /\ (a[5] = 0 \/ a[5] <= a[3])

(* The FCALL argument list the service builds from LimitArgs,              *)
(* redlimit.rs lines 210-222: maxBurst and burstPeriodMs are appended only *)
(* when positive.                                                          *)
FcallArgs(a) ==
    <<a[1], a[2], a[3]>>
        \o (IF a[4] > 0 THEN <<a[4]>> ELSE <<>>)
        \o (IF a[5] > 0 THEN <<a[5]>> ELSE <<>>)

(* The LimitArgs a key is used with in SpecWindow: every valid 5-tuple     *)
(* within the bounds.                                                      *)
ParamSet ==
    {a \in Quantities \X Counts \X Periods \X (0..MaxBurst) \X (0..MaxBurstPeriod) :
        is_valid(a)}

(* The burst period the script applies for LimitArgs a. *)
EffBurstPeriod(a) == ArgOr(FcallArgs(a), 5, DefaultBurstPeriod)

(* A call of the service on key K with the fixed LimitArgs, and the        *)
(* history of what was admitted: per millisecond, since the key was        *)
(* created, and since the burst window began.                              *)
WindowCall ==
    LET out == limiting(key, clock, FcallArgs(params))
        admitted == out.result[2] = 0
        q == params[1]
        restarts == ~key.present \/ BurstRestarts(key, clock, EffBurstPeriod(params))
    IN  /\ LimitingCall(FcallArgs(params))
        /\ adm' = IF admitted THEN [adm EXCEPT ![clock] = @ + q] ELSE adm
        /\ lifeAdm' = IF ~out.key.present THEN 0
                      ELSE IF ~admitted THEN lifeAdm
                      ELSE IF ~key.present THEN q ELSE lifeAdm + q
        /\ burstAdm' = IF ~out.key.present THEN 0
                       ELSE IF ~admitted THEN burstAdm
                       ELSE IF restarts THEN q ELSE burstAdm + q
        /\ retry' = [waiting |-> ~admitted,
                     due |-> IF admitted THEN 0 ELSE clock + out.result[2],
                     judged |-> IF retry.waiting /\ clock >= retry.due
                                THEN (IF admitted THEN "kept" ELSE "broken")
                                ELSE "none"]
        /\ UNCHANGED <<params, resVars, svcVars, lockVars, listVars, syncVars>>

TickWindow ==
    /\ Tick
    /\ lifeAdm' = IF key'.present THEN lifeAdm ELSE 0
    /\ burstAdm' = IF key'.present THEN burstAdm ELSE 0
    /\ UNCHANGED <<params, adm, retry, resVars, svcVars, lockVars, listVars, syncVars>>

----------------------------------------------------------------------------
(* The rule resolver: RedRules, redlimit.rs lines 15-155.                  *)

EmptyMap == [k \in {} |-> 0]

(* HashMap::get(k).unwrap_or(d) *)
GetOr(m, k, d) == IF k \in DOMAIN m THEN m[k] ELSE d

(* The static configuration (conf.rules): the sample configuration of the  *)
(* tests, with a scope whose limit has two elements and whose costs are 0, *)
(* and a configuration that names neither "*" nor "-".                     *)
ConfFile ==
    [s \in {"*", "-", "core", "biz"} |->
        CASE s = "*" -> [limit |-> <<10, 10000, 3, 1000>>, quantity |-> 0, path |-> EmptyMap]
          [] s = "-" -> [limit |-> <<3, 10000, 1, 1000>>, quantity |-> 0, path |-> EmptyMap]
          [] s = "core" -> [limit |-> <<100, 10000, 50, 2000>>, quantity |-> 2,
                            path |-> [p \in {"GET /a"} |-> 5]]
          [] s = "biz" -> [limit |-> <<100, 10000>>, quantity |-> 0,
                           path |-> [p \in {"GET /a"} |-> 0]]]

ConfBare ==
    [s \in {"core"} |->
        [limit |-> <<100, 10000, 50>>, quantity |-> 4, path |-> [p \in {"GET /b"} |-> 7]]]

Confs == {ConfFile, ConfBare}

(* RedRules::new, lines 54-81 *)
RedRulesNew(rules) ==
    [floor |-> IF "-" \in DOMAIN rules THEN rules["-"].limit ELSE <<2, 10000, 1, 1000>>,
     defaut |-> IF "*" \in DOMAIN rules THEN rules["*"]
                ELSE [limit |-> <<5, 5000, 2, 1000>>, quantity |-> 1, path |-> EmptyMap],
     rules |-> [s \in DOMAIN rules \ {"*", "-"} |-> rules[s]]]

(* NS::redlist_key, lines 30-32 *)
redlist_key(id) == id

(* mutant of redrules_key: the key is built without the separator *)
redrules_key_nocolon(scope, path) == scope \o path

(* NS::redrules_key, lines 34-36: format!("{}:{}", scope, path) *)
redrules_key(scope, path) == scope \o ":" \o path

(* LimitArgs::new, lines 163-184 *)
LimitArgsNew(quantity, others) ==
    CASE Len(others) = 2 -> <<quantity, others[1], others[2], 0, 0>>
      [] Len(others) = 3 -> <<quantity, others[1], others[2], others[3], 0>>
      [] Len(others) = 4 -> <<quantity, others[1], others[2], others[3], others[4]>>
      [] OTHER -> <<quantity, 0, 0, 0, 0>>

(* mutant of ReadLive: the readers drop an entry in its last millisecond *)
ReadLive_strict(ttl, now) == ttl > now

(* mutant of WriteLive: the writer keeps an entry in its last millisecond *)
WriteLive_lax(ttl, now) == ttl >= now

(* an entry is still served by the readers: lines 87, 98, 112, 119 *)
ReadLive(ttl, now) == ttl >= now

(* an entry is kept or taken by the writer: lines 141, 143, 148, 150 *)
WriteLive(ttl, now) == ttl > now

(* RedRules::redlist, lines 83-92 *)
redlist(dr, now) ==
    [k \in {k \in DOMAIN dr.redlist : ReadLive(dr.redlist[k], now)} |-> dr.redlist[k]]

(* RedRules::redrules, lines 94-103 *)
redrules(dr, now) ==
    [k \in {k \in DOMAIN dr.redrules : ReadLive(dr.redrules[k][2], now)} |-> dr.redrules[k]]

(* mutant of StaticQuantity: a cost of 0 is passed on *)
StaticQuantity_zero(rule, path) == GetOr(rule.path, path, rule.quantity)

(* lines 124-126: the static cost of the path *)
StaticQuantity(rule, path) ==
    LET quantity == GetOr(rule.path, path, rule.quantity)
    IN  IF quantity > 0 THEN quantity ELSE 1

(* mutant of limit_args: the redrule is looked up before the redlist *)
limit_args_rulefirst(r, dr, now, scope, path, id) ==
    IF id = ""
    THEN LimitArgsNew(0, <<>>)
    ELSE LET rule == GetOr(r.rules, scope, r.defaut)
             rkey == redrules_key(scope, path)
         IN  IF rkey \in DOMAIN dr.redrules /\ ReadLive(dr.redrules[rkey][2], now)
             THEN LimitArgsNew(dr.redrules[rkey][1], rule.limit)
             ELSE IF /\ redlist_key(id) \in DOMAIN dr.redlist
                     /\ ReadLive(dr.redlist[redlist_key(id)], now)
             THEN LimitArgsNew(1, r.floor)
             ELSE LimitArgsNew(StaticQuantity(rule, path), rule.limit)

(* lines 110-126: the LimitArgs of an id that is not empty *)
limit_args_id(r, dr, now, scope, path, id) ==
    IF /\ redlist_key(id) \in DOMAIN dr.redlist
       /\ ReadLive(dr.redlist[redlist_key(id)], now)
    THEN LimitArgsNew(1, r.floor)
    ELSE LET rule == GetOr(r.rules, scope, r.defaut)
             rkey == redrules_key(scope, path)
         IN  IF rkey \in DOMAIN dr.redrules /\ ReadLive(dr.redrules[rkey][2], now)
             THEN LimitArgsNew(dr.redrules[rkey][1], rule.limit)
             ELSE LimitArgsNew(StaticQuantity(rule, path), rule.limit)

(* mutant of limit_args: an empty id is resolved like any other *)
limit_args_anyid(r, dr, now, scope, path, id) ==
    limit_args_id(r, dr, now, scope, path, id)

(* RedRules::limit_args, lines 105-127 *)
limit_args(r, dr, now, scope, path, id) ==
    IF id = ""
    THEN LimitArgsNew(0, <<>>)
    ELSE limit_args_id(r, dr, now, scope, path, id)

(* mutant of MergeList: the delta replaces the stored map *)
MergeList_replace(old, delta, now) ==
    [k \in {k \in DOMAIN delta : delta[k] > now} |-> delta[k]]

(* lines 141-146: retain the entries the writer keeps, then insert those of *)
(* the delta it takes                                                      *)
MergeList(old, delta, now) ==
    [k \in {k \in DOMAIN old : WriteLive(old[k], now)}
           \cup {k \in DOMAIN delta : WriteLive(delta[k], now)} |->
        IF k \in DOMAIN delta /\ WriteLive(delta[k], now) THEN delta[k] ELSE old[k]]

(* lines 148-153 *)
MergeRules(old, delta, now) ==
    [k \in {k \in DOMAIN old : WriteLive(old[k][2], now)}
           \cup {k \in DOMAIN delta : WriteLive(delta[k][2], now)} |->
        IF k \in DOMAIN delta /\ WriteLive(delta[k][2], now) THEN delta[k] ELSE old[k]]

(* mutant of NewCursor: the cursor passed is stored whatever the stored one *)
NewCursor_assign(old, redlist_cursor) == redlist_cursor

(* lines 136-139: the cursor is replaced only by a greater one *)
NewCursor(old, redlist_cursor) ==
    IF redlist_cursor > old THEN redlist_cursor ELSE old

(* RedRules::dyn_update, lines 129-154 *)
dyn_update(dr, now, redlist_cursor, list, rules) ==
    [redlist_cursor |-> NewCursor(dr.redlist_cursor, redlist_cursor),
     redlist |-> MergeList(dr.redlist, list, now),
     redrules |-> MergeRules(dr.redrules, rules, now)]

(* The inputs of the resolver. *)
Nows == 0..(MaxNow + 1)
Expiries == 0..(MaxNow + 1)
Cursors == 0..MaxCursor
Scopes == {"core", "biz", "x"}
Paths == {"GET /a", "GET /b"}
Ids == {"", "u1", "u2"}
RedIds == {"u1", "u2"}
RuleKeys == {"core:GET /a", "x:GET /a"}
RuleQuantities == {0, 3}

(* The deadline of the backend call of a /limiting request, in ms: api.rs line 60 *)
LimitingDeadline == 100

(* The deltas dyn_update is called with: no entry, or one entry. *)
ListDeltas == {EmptyMap} \cup UNION {[{k} -> Expiries] : k \in RedIds}
RuleDeltas == {EmptyMap} \cup UNION {[{k} -> RuleQuantities \X Expiries] : k \in RuleKeys}

Idle == [op |-> "idle"]

InitResolver ==
    /\ dyn_rules = [redrules |-> EmptyMap, redlist |-> EmptyMap, redlist_cursor |-> 0]
    /\ seen = Idle
    /\ passed = 0

(* A request resolves its LimitArgs under the read lock. *)
LimitArgsCall ==
    /\ seen = Idle
    /\ \E now \in Nows, scope \in Scopes, path \in Paths, id \in Ids :
           seen' = [op |-> "limit_args", now |-> now, scope |-> scope, path |-> path,
                    id |-> id, out |-> limit_args(rr, dyn_rules, now, scope, path, id)]
    /\ UNCHANGED <<rr, dyn_rules, passed, limVars, histVars, svcVars, lockVars, listVars, syncVars>>

(* GET /redlist *)
RedlistCall ==
    /\ seen = Idle
    /\ \E now \in Nows :
           seen' = [op |-> "redlist", now |-> now, out |-> redlist(dyn_rules, now)]
    /\ UNCHANGED <<rr, dyn_rules, passed, limVars, histVars, svcVars, lockVars, listVars, syncVars>>

(* GET /redrules *)
RedrulesCall ==
    /\ seen = Idle
    /\ \E now \in Nows :
           seen' = [op |-> "redrules", now |-> now, out |-> redrules(dyn_rules, now)]
    /\ UNCHANGED <<rr, dyn_rules, passed, limVars, histVars, svcVars, lockVars, listVars, syncVars>>

(* The writer: dyn_update under the write lock, which no reader holds. *)
DynUpdateCall ==
    /\ seen = Idle
    /\ \E now \in 0..MaxNow, cursor \in Cursors, list \in ListDeltas, rules \in RuleDeltas :
           /\ dyn_rules' = dyn_update(dyn_rules, now, cursor, list, rules)
           /\ seen' = [op |-> "dyn_update", now |-> now, cursor |-> cursor,
                       list |-> list, rules |-> rules, pre |-> dyn_rules]
           /\ passed' = IF cursor > passed THEN cursor ELSE passed
    /\ UNCHANGED <<rr, limVars, histVars, svcVars, lockVars, listVars, syncVars>>

(* The operation returns and drops the lock. *)
Release ==
    /\ seen # Idle
    /\ seen' = Idle
    /\ UNCHANGED <<rr, dyn_rules, passed, limVars, histVars, svcVars, lockVars, listVars, syncVars>>

----------------------------------------------------------------------------
(* The RwLock of dyn_rules, redlimit.rs lines 20 and 83-155: dyn_update    *)
(* statement by statement under the write guard, and a read field by field *)
(* under a read guard.                                                     *)

NoTask == [pc |-> "idle"]

InitLock ==
    /\ lock = [writer |-> FALSE, readers |-> 0]
    /\ wr = NoTask
    /\ rd = NoTask

(* mutant of CanRead: a read guard is given while the write guard is held *)
CanRead_always(l) == TRUE

(* dyn_rules.read().await returns: lines 84, 95, 110, 344 *)
CanRead(l) == ~l.writer

(* dyn_rules.write().await returns: line 136 *)
CanWrite(l) == ~l.writer /\ l.readers = 0

(* The fields of dyn_rules a read goes through, in order: limit_args,      *)
(* redlist, redrules, and the cursor read of the sync worker.              *)
ReadOps == {"limit_args", "redlist", "redrules", "cursor"}

Fields(op) ==
    CASE op = "limit_args" -> <<"redlist", "redrules">>
      [] op = "redlist" -> <<"redlist">>
      [] op = "redrules" -> <<"redrules">>
      [] op = "cursor" -> <<"redlist_cursor">>

(* The deltas of the updates that run against the reads. *)
LockLists == {EmptyMap} \cup {[k \in {"u1"} |-> e] : e \in Expiries}
LockRules == {EmptyMap} \cup {[k \in {"core:GET /a"} |-> <<3, e>>] : e \in Expiries}

ReadLock ==
    /\ rd.pc = "idle"
    /\ CanRead(lock)
    /\ \E op \in ReadOps : rd' = [pc |-> "reading", op |-> op, left |-> Fields(op), obs |-> EmptyMap]
    /\ lock' = [lock EXCEPT !.readers = @ + 1]
    /\ UNCHANGED <<wr, dyn_rules, rr, seen, passed, limVars, histVars, svcVars, listVars, syncVars>>

ReadField ==
    /\ rd.pc = "reading"
    /\ rd.left # <<>>
    /\ rd' = [rd EXCEPT !.left = Tail(@),
                        !.obs = [f \in DOMAIN @ \cup {Head(rd.left)} |->
                                    IF f = Head(rd.left) THEN dyn_rules[f] ELSE @[f]]]
    /\ UNCHANGED <<lock, wr, dyn_rules, rr, seen, passed, limVars, histVars, svcVars, listVars, syncVars>>

ReadUnlock ==
    /\ rd.pc = "reading"
    /\ rd.left = <<>>
    /\ rd' = NoTask
    /\ lock' = [lock EXCEPT !.readers = @ - 1]
    /\ UNCHANGED <<wr, dyn_rules, rr, seen, passed, limVars, histVars, svcVars, listVars, syncVars>>

(* line 136 *)
WriteLock ==
    /\ wr.pc = "idle"
    /\ CanWrite(lock)
    /\ \E now \in 0..MaxNow, cursor \in Cursors, list \in LockLists, rules \in LockRules :
           wr' = [pc |-> "cursor", now |-> now, cursor |-> cursor, list |-> list,
                  rules |-> rules, pre |-> dyn_rules]
    /\ lock' = [lock EXCEPT !.writer = TRUE]
    /\ UNCHANGED <<rd, dyn_rules, rr, seen, passed, limVars, histVars, svcVars, listVars, syncVars>>

(* One statement of dyn_update under the write guard: lines 137-139, 141,  *)
(* 142-146, 148, 149-153.                                                  *)
WriteStep ==
    /\ wr.pc \notin {"idle", "done"}
    /\ dyn_rules' =
         CASE wr.pc = "cursor" ->
                [dyn_rules EXCEPT !.redlist_cursor = NewCursor(@, wr.cursor)]
           [] wr.pc = "retain_list" ->
                [dyn_rules EXCEPT !.redlist = MergeList(@, EmptyMap, wr.now)]
           [] wr.pc = "insert_list" ->
                [dyn_rules EXCEPT !.redlist = MergeList(@, wr.list, wr.now)]
           [] wr.pc = "retain_rules" ->
                [dyn_rules EXCEPT !.redrules = MergeRules(@, EmptyMap, wr.now)]
           [] wr.pc = "insert_rules" ->
                [dyn_rules EXCEPT !.redrules = MergeRules(@, wr.rules, wr.now)]
    /\ wr' = [wr EXCEPT !.pc = CASE @ = "cursor" -> "retain_list"
                                  [] @ = "retain_list" -> "insert_list"
                                  [] @ = "insert_list" -> "retain_rules"
                                  [] @ = "retain_rules" -> "insert_rules"
                                  [] @ = "insert_rules" -> "done"]
    /\ passed' = IF wr.pc = "cursor" /\ wr.cursor > passed THEN wr.cursor ELSE passed
    /\ UNCHANGED <<lock, rd, rr, seen, limVars, histVars, svcVars, listVars, syncVars>>

(* line 154: the write guard is dropped *)
WriteUnlock ==
    /\ wr.pc = "done"
    /\ wr' = NoTask
    /\ lock' = [lock EXCEPT !.writer = FALSE]
    /\ UNCHANGED <<rd, dyn_rules, rr, seen, passed, limVars, histVars, svcVars, listVars, syncVars>>

----------------------------------------------------------------------------
(* The redlist in the backend: the scripts redlist_add and redlist_scan,   *)
(* redlimit_lua.rs lines 78-124, on the sorted sets NS:LC and NS:LT, and   *)
(* the sync worker's redlist_load, redlimit.rs lines 402-470.  Scores and  *)
(* cursors are integers below 2^53: their decimal strings in the replies   *)
(* parse back to the same integers.                                        *)

(* The page sizes (LIMIT 0 10000 and REDLIST_SCAN_COUNT = 10000) scaled    *)
(* down for specification SpecScan, so that a page can be filled.          *)
PageSize == 4

(* LIMIT 0 10000 of the scan: redlimit_lua.rs line 114 *)
ScanLimit == 10000

(* redlimit.rs line 402 *)
REDLIST_SCAN_COUNT == 10000

Restrict(f, S) == [k \in S |-> f[k]]

(* line 82: ZRANGE ttl_key -inf (ts BYSCORE *)
Stale(ttls, ts) == {m \in DOMAIN ttls : ttls[m] < ts}

(* line 84: ZREM ttl_key members *)
SweepTtl(ttls, ts) == Restrict(ttls, DOMAIN ttls \ Stale(ttls, ts))

(* mutant of SweepCursor: the stale members stay in the cursor set *)
SweepCursor_keep(cursors, ttls, ts) == cursors

(* line 85: ZREM cursor_key members *)
SweepCursor(cursors, ttls, ts) == Restrict(cursors, DOMAIN cursors \ Stale(ttls, ts))

(* for i = 1, #args, 2 *)
Odd(args) == {i \in 1..Len(args) : i % 2 = 1}

(* the position of member m in args; ZADD takes the last score given for a member *)
ArgAt(args, m) == CHOOSE i \in Odd(args) : args[i] = m /\ \A j \in Odd(args) : args[j] = m => j <= i

(* redlist_add, lines 78-103, at backend time ts *)
redlist_add(cursors, ttls, ts, args) ==
    LET lt1 == SweepTtl(ttls, ts)
        lc1 == SweepCursor(cursors, ttls, ts)
        new == {args[i] : i \in Odd(args)}
    IN  [lc |-> [m \in DOMAIN lc1 \cup new |->
                    IF m \in new THEN ts + ArgAt(args, m) ELSE lc1[m]],
         lt |-> [m \in DOMAIN lt1 \cup new |->
                    IF m \in new THEN ts + args[ArgAt(args, m) + 1] ELSE lt1[m]],
         ret |-> IF Len(args) = 0 THEN 0 ELSE Cardinality(new \ DOMAIN lc1)]

(* members of equal score come in lexical order *)
MemberRank(m) == IF m = "u1" THEN 1 ELSE 2

Before(m, n, f) == f[m] < f[n] \/ (f[m] = f[n] /\ MemberRank(m) <= MemberRank(n))

(* ZRANGE .. BYSCORE: the members of S in ascending score order *)
RECURSIVE ByScore(_, _)
ByScore(S, f) ==
    IF S = {} THEN <<>>
    ELSE LET m == CHOOSE m \in S : \A n \in S : Before(m, n, f)
         IN  <<m>> \o ByScore(S \ {m}, f)

(* lines 118-121: each member followed by its ttl-score, '0' without one *)
RECURSIVE WithTtls(_, _)
WithTtls(members, ttls) ==
    IF members = <<>> THEN <<>>
    ELSE <<Head(members), GetOr(ttls, Head(members), 0)>> \o WithTtls(Tail(members), ttls)

(* mutant of ScanCursor: the cursor is the first argument *)
ScanCursor_first(args) == ArgOr(args, 1, 0)

(* line 111: local cursor = tonumber(args[2]) or 0 *)
ScanCursor(args) == ArgOr(args, 2, 0)

(* lines 114: ZRANGE cursor_key cursor inf BYSCORE LIMIT 0 10000 *)
ScanMembers(cursors, cursor) ==
    LET all == ByScore({m \in DOMAIN cursors : cursors[m] >= cursor}, cursors)
    IN  SubSeq(all, 1, Min(Len(all), page.limit))

(* redlist_scan, lines 108-124 *)
redlist_scan(cursors, ttls, args) ==
    LET members == ScanMembers(cursors, ScanCursor(args))
    IN  IF Len(members) > 0
        THEN <<cursors[members[Len(members)]]>> \o WithTtls(members, ttls)
        ELSE <<>>

(* The arguments of POST /redlist: one or two members, each with its       *)
(* expire duration, in the order the HashMap yields them.                  *)
TtlMs == {0, MaxTtl}
AddArgs ==
    {<<m, t>> : m \in RedIds, t \in TtlMs}
        \cup {a \in RedIds \X TtlMs \X RedIds \X TtlMs : a[1] # a[3]}

NoLCall == [fn |-> "none"]

(* what a job that returned Ok did: redlimit_sync_job lines 350-368 *)
NoJob == [ended |-> FALSE]
JobOk(l) ==
    [ended |-> TRUE, before |-> l.before, now |-> l.now, cursor |-> l.cursor,
     rt |-> l.rt, rules |-> l.rules]
NoLoad == [pc |-> "idle"]

InitList ==
    /\ lc = EmptyMap
    /\ lt = EmptyMap
    /\ lcall = NoLCall
    /\ load = NoLoad
    /\ returned = {}

(* One redlist_add script call at the backend's current time; job is what  *)
(* the sync job that made the call has done, NoJob for another caller.     *)
RedlistAddCallBy(args, job) ==
    LET out == redlist_add(lc, lt, clock, args)
    IN  /\ lcall = NoLCall
        /\ lc' = out.lc
        /\ lt' = out.lt
        /\ lcall' = [fn |-> "redlist_add", ts |-> clock, args |-> args,
                     pre_lt |-> lt, ret |-> out.ret,
                     job |-> job]
        /\ returned' = {m \in returned : m \in DOMAIN out.lc /\ out.lc[m] = lc[m]}

RedlistAddCall(args) == RedlistAddCallBy(args, NoJob)

(* POST /redlist, api.rs lines 102-113, and redlimit.rs lines 255-271: a   *)
(* list that is not empty is handed to the script.                         *)
PostRedlist ==
    /\ \E args \in AddArgs : RedlistAddCall(args)
    /\ UNCHANGED <<load, limVars, histVars, resVars, svcVars, lockVars, syncVars>>

(* the caller receives the reply of the script *)
ReplyList ==
    /\ lcall # NoLCall
    /\ lcall' = NoLCall
    /\ UNCHANGED <<lc, lt, load, returned, limVars, histVars, resVars, svcVars, lockVars, syncVars>>

(* a millisecond passes in the backend *)
TickList ==
    /\ clock < MaxListTime
    /\ lcall = NoLCall
    /\ Tick
    /\ UNCHANGED <<listVars, histVars, resVars, svcVars, lockVars, syncVars>>

----------------------------------------------------------------------------
(* The backend's redrules, redlimit_lua.rs lines 126-155: the sorted set   *)
(* NS:RT (rule id -> expiry) and the hash NS:RD (rule id -> the encoded    *)
(* tuple [scope, path, quantity, expiry]).                                 *)

(* line 133: ZRANGE ttl_key -inf (ts BYSCORE, the ids whose expiry is < ts *)
StaleRules(rt, ts) == {id \in DOMAIN rt : rt[id] < ts}

(* lines 134-137: with stale ids, HDEL is called on the sorted set NS:RT   *)
(* (and ZREM on the hash NS:RD): the backend answers a command on a key of *)
(* another type with WRONGTYPE, redis.call raises it, and the script ends  *)
(* there with nothing written                                              *)
SweepRules(r, members) ==
    IF members = {} THEN [err |-> FALSE, rules |-> r] ELSE [err |-> TRUE, rules |-> r]

(* line 140: the id is the scope followed by the path *)
RuleId(args) == args[1] \o args[2]

(* lines 141-145: the tuple stored, its quantity and expiry *)
RuleTuple(ts, args) == <<args[1], args[2], ArgOr(args, 3, 1), ts + ArgOr(args, 4, 1000)>>

(* lines 129-148: the stored procedure redrules_add at time ts; ret is the *)
(* reply: 0 without args, else HSET's count of new fields                  *)
redrules_add(r, ts, args) ==
    LET swept == SweepRules(r, StaleRules(r.rt, ts))
        id == RuleId(args)
        tuple == RuleTuple(ts, args)
    IN  IF swept.err THEN [err |-> TRUE, ret |-> 0, rules |-> r]
        ELSE IF Len(args) = 0 THEN [err |-> FALSE, ret |-> 0, rules |-> swept.rules]
        ELSE [err |-> FALSE,
              ret |-> IF id \in DOMAIN swept.rules.rd THEN 0 ELSE 1,
              rules |-> [rt |-> [i \in DOMAIN swept.rules.rt \cup {id} |->
                                    IF i = id THEN tuple[4] ELSE swept.rules.rt[i]],
                         rd |-> [i \in DOMAIN swept.rules.rd \cup {id} |->
                                    IF i = id THEN tuple ELSE swept.rules.rd[i]]]]

(* lines 152-155: the stored procedure redrules_all, HVALS of the hash *)
redrules_all(r) == {r.rd[id] : id \in DOMAIN r.rd}

(* The arguments redrules_add is called with: none (the sweep of           *)
(* redrules_load), or scope, path, quantity, ttl (redlimit.rs 241-248).    *)
RuleScopes == {"core", "x"}
RulePaths == {"GET /a"}
RuleArgs == {<<>>} \cup (RuleScopes \X RulePaths \X RuleQuantities \X TtlMs)

NoRCall == [fn |-> "none"]

InitSync ==
    /\ rtab = [rt |-> EmptyMap, rd |-> EmptyMap]
    /\ rcall = NoRCall
    /\ fnlib = "redlimit"
    /\ running = 0
    /\ stop = FALSE
    /\ page = [limit |-> ScanLimit, count |-> REDLIST_SCAN_COUNT]
    /\ nap = TRUE

(* One redrules_add script call at the backend's current time. *)
RedrulesAddCall(args) ==
    LET out == redrules_add(rtab, clock, args)
    IN  /\ rcall = NoRCall
        /\ rtab' = out.rules
        /\ rcall' = [fn |-> "redrules_add", ts |-> clock, args |-> args,
                     pre |-> rtab, err |-> out.err, ret |-> out.ret]

(* a client calls redrules_add *)
RulesAdd ==
    /\ \E args \in RuleArgs : RedrulesAddCall(args)
    /\ UNCHANGED <<fnlib, running, stop, page, nap, limVars, histVars, resVars, svcVars, lockVars,
                   listVars>>

(* a client calls redrules_all *)
RulesAll ==
    /\ rcall = NoRCall
    /\ rcall' = [fn |-> "redrules_all", ts |-> clock, ret |-> redrules_all(rtab)]
    /\ UNCHANGED <<rtab, fnlib, running, stop, page, nap, limVars, histVars, resVars, svcVars, lockVars,
                   listVars>>

(* the caller receives the reply of the script *)
ReplyRules ==
    /\ rcall # NoRCall
    /\ rcall' = NoRCall
    /\ UNCHANGED <<rtab, fnlib, running, stop, page, nap, limVars, histVars, resVars, svcVars, lockVars,
                   listVars>>

(* a millisecond passes in the backend *)
TickRules ==
    /\ clock < MaxListTime
    /\ rcall = NoRCall
    /\ Tick
    /\ UNCHANGED <<histVars, resVars, svcVars, lockVars, listVars, syncVars>>

----------------------------------------------------------------------------
(* The script library and init_redlimit_fn, redlimit.rs lines 273-286.     *)
(* An error text is the sequence of its words.                             *)

FnNotFound == <<"ERR", "Function", "not", "found">>
AlreadyExists == <<"ERR", "Library", "redlimit", "already", "exists">>
Refused == <<"READONLY", "You", "can't", "write", "against", "a", "read", "only", "replica">>
ConnErr == <<"connection", "closed">>

(* str::contains on the words of a text *)
Contains(text, pat) ==
    \E i \in 0..(Len(text) - Len(pat)) : SubSeq(text, i + 1, i + Len(pat)) = pat

(* The library found in the backend: none, this build's, or one an older   *)
(* build loaded under the same name.                                       *)
Libs == {"none", "redlimit", "older"}

(* How the backend takes a command: it serves it, it refuses it with an    *)
(* error reply of its own, or the connection fails.                        *)
Outcomes == {"served", "refused", "down"}

(* FUNCTION LOAD without REPLACE: a library of that name is never replaced *)
function_load(lib, outcome) ==
    CASE outcome = "down" -> [sent |-> FALSE, error |-> TRUE, text |-> ConnErr, lib |-> lib]
      [] outcome = "refused" -> [sent |-> TRUE, error |-> TRUE, text |-> Refused, lib |-> lib]
      [] outcome = "served" ->
            IF lib = "none"
            THEN [sent |-> TRUE, error |-> FALSE, text |-> <<"redlimit">>, lib |-> "redlimit"]
            ELSE [sent |-> TRUE, error |-> TRUE, text |-> AlreadyExists, lib |-> lib]

(* mutant of LoadOk: every error reply is an error *)
LoadOk_strict(reply) == reply.sent /\ ~reply.error

(* lines 278-285: Ok unless the call failed or the reply is an error whose *)
(* text does not contain "already exists"                                  *)
LoadOk(reply) ==
    /\ reply.sent
    /\ reply.error => Contains(reply.text, <<"already", "exists">>)

(* init_redlimit_fn, lines 273-286 *)
init_redlimit_fn(lib, outcome) ==
    LET reply == function_load(lib, outcome)
    IN  [ok |-> LoadOk(reply), reply |-> reply, lib |-> reply.lib]

(* init_redlimit_fn is called, at start-up or by an operator *)
InitFnCall ==
    /\ rcall = NoRCall
    /\ \E outcome \in Outcomes :
          LET r == init_redlimit_fn(fnlib, outcome)
          IN  /\ fnlib' = r.lib
              /\ rcall' = [fn |-> "init_redlimit_fn", pre |-> fnlib, outcome |-> outcome,
                           reply |-> r.reply, ok |-> r.ok, post |-> r.lib]
    /\ UNCHANGED <<rtab, running, stop, page, nap, limVars, histVars, resVars, svcVars, lockVars,
                   listVars>>

(* the backend loses its libraries (FUNCTION FLUSH, or a restart without   *)
(* them)                                                                   *)
FlushFn ==
    /\ fnlib # "none"
    /\ fnlib' = "none"
    /\ UNCHANGED <<rtab, rcall, running, stop, page, nap, limVars, histVars, resVars, svcVars,
                   lockVars, listVars>>

----------------------------------------------------------------------------
(* The sync worker, redlimit.rs lines 305-470: spawn_redlimit_sync,        *)
(* redlimit_sync_job, redrules_load and redlist_load.  load.pc is the      *)
(* worker's position: "idle" in the select of line 312, then the backend   *)
(* calls of one job in turn, "failed" when the job has returned an error.  *)

(* mutant of InSelect: the worker is taken to be in the select wherever it *)
(* is                                                                      *)
InSelect_any(l) == l.pc # "cancelled"

(* lines 311-318: the worker awaits the sleep and the stop signal *)
InSelect(l) == l.pc = "idle"

(* redrules_load, lines 382-392: the decoded tuples live at now, by rule   *)
(* key, and whether one is stale                                           *)
LoadedRules(data, now) ==
    [k \in {redrules_key(v[1], v[2]) : v \in {u \in data : u[4] > now}} |->
        LET v == CHOOSE u \in data : u[4] > now /\ redrules_key(u[1], u[2]) = k
        IN  <<v[3], v[4]>>]

HasStaleRule(data, now) == \E v \in data : v[4] <= now

(* mutant of HasDelta: only the redlist delta counts *)
HasDelta_list(list, rules) == list # EmptyMap

(* line 355: !dyn_rules.is_empty() || !dyn_list.1.is_empty() *)
HasDelta(list, rules) == rules # EmptyMap \/ list # EmptyMap

(* the job returns an error: the `?` of lines 343-350 *)
Failed(l, text) == [pc |-> "failed", err |-> text, before |-> l.before]

(* lines 311-320: the sleep has elapsed and the job is called; lines       *)
(* 343-347: it reads the stored cursor and the time and enters             *)
(* redrules_load; lines 379-392: FCALL redrules_all and the reply decoded. *)
(* Without the library the call fails with "Function not found".           *)
(* The sleep of line 317 is started anew in each turn of the loop: when    *)
(* the token is already cancelled as the select is entered, only the stop  *)
(* branch is ready; cancelled during the sleep, either branch may be taken *)
(* once the sleep has elapsed too.                                         *)
LoadStart ==
    /\ InSelect(load)
    /\ nap
    /\ lcall = NoLCall
    /\ IF fnlib = "none"
       THEN /\ load' = [pc |-> "failed", err |-> FnNotFound, before |-> dyn_rules]
            /\ UNCHANGED running
       ELSE /\ load' = [pc |-> IF HasStaleRule(redrules_all(rtab), clock)
                               THEN "rsweep" ELSE "scan",
                        cursor |-> dyn_rules.redlist_cursor, now |-> clock,
                        rt |-> EmptyMap, has_stale |-> FALSE,
                        rules |-> LoadedRules(redrules_all(rtab), clock),
                        before |-> dyn_rules]
            /\ running' = running + 1
    /\ UNCHANGED <<lc, lt, lcall, returned, limVars, histVars, resVars, svcVars, lockVars,
                   rtab, rcall, fnlib, stop, page, nap>>

(* redrules_load, lines 394-397: the sweep call, redrules_add without      *)
(* arguments; its reply is not looked at                                   *)
JobRulesSweep ==
    /\ load.pc = "rsweep"
    /\ IF fnlib = "none" THEN UNCHANGED <<rtab, rcall>> ELSE RedrulesAddCall(<<>>)
    /\ load' = [load EXCEPT !.pc = "scan"]
    /\ UNCHANGED <<lc, lt, lcall, returned, limVars, histVars, resVars, svcVars, lockVars,
                   fnlib, running, stop, page, nap>>

(* the entries of the reply: lines 437-457 *)
Entries(data) == {i \in 2..Len(data) : i % 2 = 0 /\ i + 1 <= Len(data)}

(* redlimit_sync_job, lines 352-369: with the result (cursor, rt) of       *)
(* redlist_load the job calls dyn_update when something was loaded, and    *)
(* returns Ok: the worker is back in the select                            *)
SyncUpdate(l) ==
    /\ load' = NoLoad
    /\ nap' = ~stop
    /\ running' = running - 1
    /\ IF HasDelta(l.rt, l.rules)
       THEN /\ dyn_rules' = dyn_update(dyn_rules, l.now, l.cursor, l.rt, l.rules)
            /\ passed' = IF l.cursor > passed THEN l.cursor ELSE passed
       ELSE UNCHANGED <<dyn_rules, passed>>

(* One turn of the loop of redlist_load, lines 413-461: the scan with the  *)
(* worker's cursor, the new cursor, the entries taken; after the last turn *)
(* without stale entries the job goes on to dyn_update.  Without the       *)
(* library the call fails with "Function not found".  The reply and what   *)
(* is made of it are each bound once.                                      *)
LoadScan ==
    /\ load.pc = "scan"
    /\ lcall = NoLCall
    /\ IF fnlib = "none"
       THEN /\ load' = Failed(load, FnNotFound)
            /\ running' = running - 1
            /\ UNCHANGED <<lcall, returned, dyn_rules, passed, nap>>
       ELSE
       \E data \in {redlist_scan(lc, lt, <<load.cursor>>)} :
       \E has_next \in {Len(data) >= page.count} :
       \E live \in {{i \in Entries(data) : data[i + 1] > load.now}} :
       \E next \in {
               IF Len(data) = 0
               THEN [load EXCEPT !.pc = IF load.has_stale THEN "sweep" ELSE "update"]
               ELSE [load EXCEPT
                       !.cursor = IF @ = data[1] THEN @ + 1 ELSE data[1],
                       !.rt = [m \in DOMAIN @ \cup {data[i] : i \in live} |->
                                 IF \E i \in live : data[i] = m
                                 THEN data[(CHOOSE i \in live : data[i] = m) + 1]
                                 ELSE @[m]],
                       !.has_stale = @ \/ live # Entries(data),
                       !.pc = IF has_next /\ Len(data) % 2 = 1 THEN "scan"
                              ELSE IF load.has_stale \/ live # Entries(data)
                              THEN "sweep" ELSE "update"]} :
       LET got == {data[i] : i \in Entries(data)}
       IN  /\ lcall' = [fn |-> "redlist_scan", cursor |-> load.cursor, data |-> data,
                        again |-> got \cap returned,
                        job |-> IF next.pc = "update" THEN JobOk(next) ELSE NoJob]
           /\ returned' = returned \cup got
           /\ IF next.pc = "update"
              THEN SyncUpdate(next)
              ELSE load' = next /\ UNCHANGED <<dyn_rules, passed, running, nap>>
    /\ UNCHANGED <<lc, lt, rr, seen, limVars, histVars, svcVars, lockVars,
                   rtab, rcall, fnlib, stop, page>>

(* lines 464-467: the sweep call, redlist_add without arguments, its reply *)
(* not looked at, and then the job's dyn_update                            *)
LoadSweep ==
    /\ load.pc = "sweep"
    /\ IF fnlib = "none"
       THEN /\ lcall = NoLCall
            /\ lcall' = [fn |-> "redlist_add", err |-> FnNotFound, job |-> JobOk(load)]
            /\ UNCHANGED <<lc, lt, returned>>
       ELSE RedlistAddCallBy(<<>>, JobOk(load))
    /\ SyncUpdate(load)
    /\ UNCHANGED <<rr, seen, limVars, histVars, svcVars, lockVars,
                   rtab, rcall, fnlib, stop, page>>

(* a backend call of the job fails: the connection is lost *)
JobFail ==
    /\ load.pc \in {"rsweep", "scan", "sweep"}
    /\ load' = Failed(load, ConnErr)
    /\ running' = running - 1
    /\ UNCHANGED <<lc, lt, lcall, returned, limVars, histVars, resVars, svcVars, lockVars,
                   rtab, rcall, fnlib, stop, page, nap>>

(* mutant of AfterError: the worker leaves its loop *)
AfterError_break(text) == "cancelled"

(* lines 321-326: after an error the worker reloads the library when the   *)
(* text contains "Function not found", and else is back in the select      *)
AfterError(text) ==
    IF Contains(text, <<"Function", "not", "found">>) THEN "reload" ELSE "idle"

JobError ==
    /\ load.pc = "failed"
    /\ load' = [pc |-> AfterError(load.err)]
    /\ nap' = IF InSelect(load') THEN ~stop ELSE nap
    /\ UNCHANGED <<lc, lt, lcall, returned, limVars, histVars, resVars, svcVars, lockVars,
                   rtab, rcall, fnlib, running, stop, page>>

(* lines 326-334: init_redlimit_fn; whatever it returns, the worker is     *)
(* back in the select                                                      *)
Reload ==
    /\ load.pc = "reload"
    /\ \E outcome \in Outcomes : fnlib' = init_redlimit_fn(fnlib, outcome).lib
    /\ load' = NoLoad
    /\ nap' = ~stop
    /\ UNCHANGED <<lc, lt, lcall, returned, limVars, histVars, resVars, svcVars, lockVars,
                   rtab, rcall, running, stop, page>>

(* the owner of the token cancels it, at any time *)
Cancel ==
    /\ ~stop
    /\ stop' = TRUE
    /\ UNCHANGED <<listVars, limVars, histVars, resVars, svcVars, lockVars,
                   rtab, rcall, fnlib, running, page, nap>>

(* lines 313-316: in the select, the stop signal is seen and the loop left *)
WorkerStop ==
    /\ InSelect(load)
    /\ stop
    /\ load' = [pc |-> "cancelled"]
    /\ UNCHANGED <<lc, lt, lcall, returned, limVars, histVars, resVars, svcVars, lockVars,
                   syncVars>>

----------------------------------------------------------------------------
(* The limiter service: POST /limiting, api.rs lines 46-91, and the        *)
(* wrapper `limiting`, redlimit.rs lines 201-230.                          *)
(*                                                                         *)
(* K is the counter key of scope "core" and id "u1".  The service's        *)
(* deadline timer and the backend's clock belong to different machines:    *)
(* the timer advances in steps of WaitStep ms, the backend's clock in ms,  *)
(* and neither waits for the other.                                        *)

NoReq == [pc |-> "idle"]

(* mutant of OnError: a failed backend call answers as limited *)
OnError_limited == <<0, 1>>

(* api.rs lines 70-76: Err(err) => LimitResult(0, 0) *)
OnError == <<0, 0>>

(* redlimit.rs lines 206-208: the result returned without a backend call *)
NotValidResult == <<0, 0>>

(* mutant of LimitResponse: remaining is computed without the floor at 0   *)
(* and reset is computed whatever the wait                                 *)
LimitResponse_plain(limit, rt, ts) ==
    [limit |-> limit,
     remaining |-> limit - rt[1],
     reset |-> (ts + rt[2]) \div 1000,
     retry |-> rt[2]]

(* api.rs lines 85-90: the response built from the limiter result *)
LimitResponse(limit, rt, ts) ==
    [limit |-> limit,
     remaining |-> IF limit > rt[1] THEN limit - rt[1] ELSE 0,
     reset |-> IF rt[2] > 0 THEN (ts + rt[2]) \div 1000 ELSE 0,
     retry |-> rt[2]]

(* The request's unix_ms (api.rs line 53): milliseconds since the epoch,   *)
(* here around the turn of a second.                                       *)
UnixMs == {1997, 1998, 2000}

SvcScopes == {"core"}
SvcIds == {"", "u1"}

(* The limits of scope "core" in the configurations the service runs with: *)
(* <max count, period [, max burst [, burst period]]>.                     *)
SvcLimits ==
    {<<m, p>> : m \in {1, MaxCount}, p \in {0, MaxPeriod, 60 * 1000, 60 * 1000 + 1}}
        \cup {<<MaxCount, MaxPeriod, b>> : b \in 1..MaxBurst}
        \cup {<<MaxCount, p, b, pb>> :
                 p \in {2, MaxPeriod}, b \in 1..MaxBurst, pb \in 1..MaxPeriod}

SvcConf(limit) ==
    [s \in {"-", "core"} |->
        CASE s = "-" -> [limit |-> <<2, 2>>, quantity |-> 0, path |-> EmptyMap]
          [] s = "core" -> [limit |-> limit, quantity |-> 0,
                            path |-> [p \in {"GET /a"} |-> 2]]]

SvcConfs == {SvcConf(l) : l \in SvcLimits}

(* The answer of the handler: api.rs lines 78-90. *)
Answered(r, rt, outcome, wire) ==
    [pc |-> "answered", scope |-> r.scope, path |-> r.path, id |-> r.id, ts |-> r.ts,
     args |-> r.args, sent |-> r.sent,
     effect |-> r.effect, wire |-> wire, reply |-> <<>>, rt |-> rt, outcome |-> outcome,
     resp |-> LimitResponse(r.args[2], rt, r.ts)]

(* api.rs lines 52-66 and redlimit.rs lines 206-224: the request resolves  *)
(* its LimitArgs; invalid LimitArgs are answered at once, valid ones put   *)
(* the FCALL on the wire.                                                  *)
PostLimiting ==
    /\ req.pc = "idle"
    /\ \E scope \in SvcScopes, path \in Paths, id \in SvcIds, ts \in UnixMs :
           LET args == limit_args(rr, dyn_rules, ts, scope, path, id)
               r == [pc |-> "sent", scope |-> scope, path |-> path, id |-> id, ts |-> ts,
                     args |-> args, waited |-> 0, sent |-> is_valid(args),
                     effect |-> FALSE, wire |-> is_valid(args), reply |-> <<>>]
           IN  req' = IF is_valid(args) THEN r
                      ELSE Answered(r, NotValidResult, "invalid", FALSE)
    /\ UNCHANGED <<limVars, histVars, resVars, lockVars, listVars, syncVars>>

(* The backend runs the script of the FCALL on the wire: before the        *)
(* service has the reply, or after the service has given the call up.      *)
BackendRuns ==
    /\ req.pc \in {"sent", "answered"}
    /\ req.wire
    /\ LimitingCall(FcallArgs(req.args))
    /\ req' = [req EXCEPT !.wire = FALSE,
                          !.effect = key' # key,
                          !.reply = IF req.pc = "sent" THEN call'.result ELSE @,
                          !.pc = IF @ = "sent" THEN "executed" ELSE @]
    /\ UNCHANGED <<histVars, resVars, lockVars, listVars, syncVars>>

(* redlimit.rs lines 224-227: the reply arrives before the deadline *)
Receive ==
    /\ req.pc = "executed"
    /\ req.waited < LimitingDeadline
    /\ req' = Answered(req, req.reply, "ok", FALSE)
    /\ UNCHANGED <<limVars, histVars, resVars, lockVars, listVars, syncVars>>

(* redlimit.rs line 224: pool.get() or send() returns an error; the FCALL  *)
(* may have run, may still be on the wire, or was never written.           *)
Fail ==
    /\ req.pc \in {"sent", "executed"}
    /\ \E wire \in {FALSE, req.wire} : req' = Answered(req, OnError, "error", wire)
    /\ UNCHANGED <<limVars, histVars, resVars, lockVars, listVars, syncVars>>

(* the service's timer advances while the call is pending *)
Wait ==
    /\ req.pc \in {"sent", "executed"}
    /\ req.waited < LimitingDeadline
    /\ req' = [req EXCEPT !.waited = Min(@ + WaitStep, LimitingDeadline)]
    /\ UNCHANGED <<limVars, histVars, resVars, lockVars, listVars, syncVars>>

(* api.rs lines 59-68: the deadline passes, the pending call is dropped;   *)
(* what is on the wire stays on the wire.                                  *)
Timeout ==
    /\ req.pc \in {"sent", "executed"}
    /\ req.waited >= LimitingDeadline
    /\ \E wire \in {FALSE, req.wire} : req' = Answered(req, OnError, "timeout", wire)
    /\ UNCHANGED <<limVars, histVars, resVars, lockVars, listVars, syncVars>>

(* the response has been written; the next request may come *)
Finish ==
    /\ req.pc = "answered"
    /\ req' = NoReq
    /\ call' = NoCall
    /\ UNCHANGED <<clock, key, born, histVars, resVars, lockVars, listVars, syncVars>>

(* The sync worker brings in one redlist entry or one redrule, live for    *)
(* the earlier requests and expired for the later ones.                    *)
SvcLists == {EmptyMap} \cup {[k \in {"u1"} |-> 1998]}
SvcRules == {EmptyMap} \cup {[k \in {"core:GET /a"} |-> <<q, 1998>>] : q \in RuleQuantities}

SvcSync ==
    /\ passed = 0
    /\ \E list \in SvcLists, rules \in SvcRules :
           /\ (list = EmptyMap) # (rules = EmptyMap)
           /\ dyn_rules' = dyn_update(dyn_rules, 1997, 1, list, rules)
    /\ passed' = 1
    /\ UNCHANGED <<rr, seen, limVars, histVars, svcVars, lockVars, listVars, syncVars>>

----------------------------------------------------------------------------
(* The specifications. *)

(* Spec: script calls on one key with argument lists that change from call *)
(* to call.                                                                *)
Init ==
    /\ InitLimiter
    /\ InitHist
    /\ InitResolver
    /\ rr = RedRulesNew(ConfFile)
    /\ req = NoReq
    /\ InitLock
    /\ InitList
    /\ InitSync

Next == ScriptCall \/ TickLimiter \/ ReplyLimiter

Spec == Init /\ [][Next]_vars

(* SpecWindow: one key used with one fixed valid LimitArgs tuple. *)
InitWindow ==
    /\ InitLimiter
    /\ params \in ParamSet
    /\ adm = [u \in 0..MaxTime |-> 0]
    /\ lifeAdm = 0
    /\ burstAdm = 0
    /\ retry = NoRetry
    /\ InitResolver
    /\ rr = RedRulesNew(ConfFile)
    /\ req = NoReq
    /\ InitLock
    /\ InitList
    /\ InitSync

NextWindow == WindowCall \/ TickWindow \/ ReplyLimiter

SpecWindow == InitWindow /\ [][NextWindow]_vars

(* SpecResolver: the resolver under reads and dyn_update calls. *)
InitRes ==
    /\ InitLimiter
    /\ InitHist
    /\ InitResolver
    /\ rr \in {RedRulesNew(cf) : cf \in Confs}
    /\ req = NoReq
    /\ InitLock
    /\ InitList
    /\ InitSync

NextRes ==
    \/ LimitArgsCall
    \/ RedlistCall
    \/ RedrulesCall
    \/ DynUpdateCall
    \/ Release

SpecResolver == InitRes /\ [][NextRes]_vars

(* SpecService: /limiting requests served one after the other against the *)
(* backend, under any of the configurations.                               *)
InitService ==
    /\ InitLimiter
    /\ InitHist
    /\ InitResolver
    /\ rr \in {RedRulesNew(cf) : cf \in SvcConfs}
    /\ req = NoReq
    /\ InitLock
    /\ InitList
    /\ InitSync

NextService ==
    \/ PostLimiting
    \/ BackendRuns
    \/ Receive
    \/ Fail
    \/ Wait
    \/ Timeout
    \/ Finish
    \/ SvcSync
    \/ TickLimiter

SpecService == InitService /\ [][NextService]_vars

(* SpecLock: one dyn_update after the other, against one read after the   *)
(* other, each a task of its own.                                          *)
InitLockSpec ==
    /\ InitLimiter
    /\ InitHist
    /\ InitResolver
    /\ rr = RedRulesNew(ConfFile)
    /\ req = NoReq
    /\ InitLock
    /\ InitList
    /\ InitSync

NextLock ==
    \/ ReadLock
    \/ ReadField
    \/ ReadUnlock
    \/ WriteLock
    \/ WriteStep
    \/ WriteUnlock

SpecLock == InitLockSpec /\ [][NextLock]_vars

(* SpecRedlist: POST /redlist calls and the sync worker's loads against    *)
(* the backend's redlist.                                                  *)
InitRedlist ==
    /\ InitLimiter
    /\ InitHist
    /\ InitResolver
    /\ rr = RedRulesNew(ConfFile)
    /\ req = NoReq
    /\ InitLock
    /\ InitList
    /\ InitSync

NextRedlist ==
    \/ PostRedlist
    \/ LoadStart
    \/ LoadScan
    \/ LoadSweep
    \/ ReplyList
    \/ TickList

SpecRedlist == InitRedlist /\ [][NextRedlist]_vars

----------------------------------------------------------------------------
(* The `limiting` script: claims C1-C5.                                    *)

(* The sum of quantity admitted in the P ms from time s on. *)
AdmittedIn(s, len) == SumTo(adm, s, Min(s + len - 1, MaxTime))

(* C1 as stated: with LimitArgs (q, M, P, 0, 0), q <= M, the sum of q over *)
(* the calls admitted in any time interval of length P is <= M.            *)
C1_AnyInterval ==
    (params[4] = 0 /\ params[5] = 0 /\ params[1] <= params[2])
        => \A s \in 0..MaxTime : AdmittedIn(s, params[3]) <= params[2]

(* C1, amended: with LimitArgs (q, M, P, 0, 0), q <= M, the sum of q over  *)
(* the calls admitted between the creation of the key and its expiry (one  *)
(* fixed window) is <= M, whatever the interleaving of the calls.          *)
C1_FixedWindow ==
    (params[4] = 0 /\ params[5] = 0 /\ params[1] <= params[2])
        => lifeAdm <= params[2]

(* a full window: several calls admitted up to M, and a further call rejected *)
C1_Witness ==
    /\ params[4] = 0 /\ params[5] = 0
    /\ params[1] < params[2]
    /\ lifeAdm = params[2]
    /\ call.made /\ call.result[2] > 0

(* C2 as stated: with LimitArgs (q, M, P, B, Pb), B > 0, q <= B, the sum   *)
(* of q over the calls admitted in any time interval of length Pb is <= B. *)
C2_AnyInterval ==
    (params[4] > 0 /\ params[1] <= params[4] /\ params[5] > 0)
        => \A s \in 0..MaxTime : AdmittedIn(s, params[5]) <= params[4]

(* C2, amended: with LimitArgs (q, M, P, B, Pb), B > 0, q <= B, the sum of *)
(* q over the calls admitted since the current burst window began (at the  *)
(* creation of the key or at the call that restarted the window) is <= B.  *)
C2_BurstWindow ==
    (params[4] > 0 /\ params[1] <= params[4]) => burstAdm <= params[4]

(* a full burst window: a call rejected by the burst cap alone *)
C2_Witness ==
    /\ params[4] > 0 /\ params[5] > 0
    /\ params[1] < params[4]
    /\ burstAdm = params[4]
    /\ call.made /\ call.result[2] > 0
    /\ call.pre.c + params[1] <= params[2]

(* C3 as stated: a call that rejects (waitMs > 0) leaves c, b, t, the TTL  *)
(* and the existence of its key as they were.                              *)
C3_RejectChangesNothing ==
    (call.made /\ call.result[2] > 0) => key = call.pre

(* the period-full rejection taken when PTTL reads <= 0 *)
LastMsPeriodReject ==
    /\ call.pre.present
    /\ call.pre.exp <= clock
    /\ call.pre.c + call.args[1] > call.args[2]
    /\ call.result = <<call.pre.c, 1>>

(* C3, amended: a call that rejects leaves c, b, t, the TTL and the        *)
(* existence of its key as they were, except on the period-full path when  *)
(* the key's remaining TTL reads <= 0: that call deletes the key.          *)
C3_RejectFrame ==
    (call.made /\ call.result[2] > 0)
        => \/ key = call.pre
           \/ LastMsPeriodReject /\ key = Absent

(* a rejection on an existing key that has time left *)
C3_Witness ==
    /\ call.made /\ call.result[2] > 1
    /\ call.pre.present /\ call.args[1] <= call.args[2]
    /\ key = call.pre

(* C4: the expiry of the key is set by the call that creates it, to that   *)
(* call's period; no later call on the existing key moves it, so the       *)
(* remaining TTL is <= that period and the key is gone period ms after its *)
(* creation.                                                               *)
C4_TtlSetOnce ==
    /\ key.present =>
        /\ key.exp = born.at + born.period
        /\ PTTL(key, clock) <= born.period
        /\ PTTL(key, clock) >= 0
    /\ (call.made /\ call.pre.present /\ key.present) => key.exp = call.pre.exp

(* an increment committed on an existing key, later than its creation and  *)
(* by a call with another period argument                                  *)
C4_Witness ==
    /\ call.made /\ call.result[2] = 0
    /\ call.pre.present /\ key.present
    /\ clock > born.at
    /\ call.args[3] # born.period

(* the call committed: it created the key or increased c by quantity *)
Committed ==
    \/ ~call.pre.present /\ key.present /\ key.c = call.args[1]
    \/ call.pre.present /\ key.present /\ key.c = call.pre.c + call.args[1]

(* the call left the counters alone *)
CommittedNothing ==
    call.pre.present => (key.present => key = call.pre)

(* C5 as stated: waitMs = 0 exactly when the call committed; an admitted   *)
(* call returns the stored c, and a call rejected on an existing key       *)
(* returns the unchanged stored c.                                         *)
C5_ResultMatchesCommit ==
    call.made =>
        /\ call.result[2] >= 0
        /\ (call.result[2] = 0) <=> Committed
        /\ call.result[2] > 0 => (~Committed /\ CommittedNothing)
        /\ call.result[2] = 0 => call.result[1] = key.c
        /\ (call.result[2] > 0 /\ call.pre.present) => call.result[1] = call.pre.c

(* C5, amended: as stated, except that a call rejected because quantity >  *)
(* maxCount returns (quantity, 1) and not the stored c.                    *)
C5_ResultMatchesCommitBut ==
    call.made =>
        /\ call.result[2] >= 0
        /\ (call.result[2] = 0) <=> Committed
        /\ call.result[2] > 0 => (~Committed /\ CommittedNothing)
        /\ call.result[2] = 0 => call.result[1] = key.c
        /\ (call.result[2] > 0 /\ call.pre.present /\ call.args[1] <= call.args[2])
               => call.result[1] = call.pre.c
        /\ call.args[1] > call.args[2] => call.result = <<call.args[1], 1>>

(* an increment admitted on an existing key *)
C5_Witness ==
    /\ call.made /\ call.result[2] = 0
    /\ call.pre.present
    /\ call.result[1] = call.pre.c + call.args[1]

----------------------------------------------------------------------------
(* The rule resolver: claims C6-C10.                                       *)

(* a limit of two to four elements as a quadruple, absent elements 0 *)
Quad(l) == [i \in 1..4 |-> IF i <= Len(l) THEN l[i] ELSE 0]

(* the rule of a scope: rules[scope], or the default rule *)
RuleOf(scope) == IF scope \in DOMAIN rr.rules THEN rr.rules[scope] ELSE rr.defaut

(* the stored redlist holds id with an expiry >= now *)
Listed(id, now) ==
    id \in DOMAIN dyn_rules.redlist /\ dyn_rules.redlist[id] >= now

(* the stored redrules hold "scope:path" with an expiry >= now *)
Ruled(scope, path, now) ==
    /\ (scope \o ":" \o path) \in DOMAIN dyn_rules.redrules
    /\ dyn_rules.redrules[scope \o ":" \o path][2] >= now

(* the static cost of a path: rule.path[path], else rule.quantity, 0 read as 1 *)
StaticCost(scope, path) ==
    LET rule == RuleOf(scope)
        cost == IF path \in DOMAIN rule.path THEN rule.path[path] ELSE rule.quantity
    IN  IF cost = 0 THEN 1 ELSE cost

ResolvedId == seen.op = "limit_args" /\ seen.id # ""

(* C6: limit_args for a non-empty id with a redlist entry of expiry >= now *)
(* returns quantity 1 with the floor limits, whatever the scope, the path, *)
(* the static rule and the redrules.                                       *)
C6_RedlistFloor ==
    (ResolvedId /\ Listed(seen.id, seen.now))
        => seen.out = <<1>> \o Quad(rr.floor)

(* a listed id on a path that has a static cost and a live redrule *)
C6_Witness ==
    /\ ResolvedId /\ Listed(seen.id, seen.now)
    /\ Ruled(seen.scope, seen.path, seen.now)
    /\ seen.path \in DOMAIN RuleOf(seen.scope).path
    /\ seen.out = <<1>> \o Quad(rr.floor)

(* C7: with no redlist entry of expiry >= now for the id and no redrule of *)
(* expiry >= now for scope:path, limit_args returns the limits of          *)
(* rules[scope], or of the default rule for an unknown scope, and the      *)
(* quantity rule.path[path], else rule.quantity, with 0 replaced by 1.     *)
C7_StaticRule ==
    (ResolvedId /\ ~Listed(seen.id, seen.now) /\ ~Ruled(seen.scope, seen.path, seen.now))
        => seen.out = <<StaticCost(seen.scope, seen.path)>> \o Quad(RuleOf(seen.scope).limit)

(* a path whose configured cost is 0, resolved while expired entries are stored *)
C7_Witness ==
    /\ ResolvedId /\ ~Listed(seen.id, seen.now) /\ ~Ruled(seen.scope, seen.path, seen.now)
    /\ seen.id \in DOMAIN dyn_rules.redlist
    /\ seen.path \in DOMAIN RuleOf(seen.scope).path
    /\ RuleOf(seen.scope).path[seen.path] = 0
    /\ seen.out[1] = 1

(* C8: with no redlist entry of expiry >= now for the id and a redrule of  *)
(* expiry >= now under "scope:path", limit_args returns that redrule's     *)
(* quantity with the limits of rules[scope], or of the default rule.       *)
C8_RedruleQuantity ==
    (ResolvedId /\ ~Listed(seen.id, seen.now) /\ Ruled(seen.scope, seen.path, seen.now))
        => seen.out = <<dyn_rules.redrules[seen.scope \o ":" \o seen.path][1]>>
                          \o Quad(RuleOf(seen.scope).limit)

(* a redrule that overrides a static path cost *)
C8_Witness ==
    /\ ResolvedId /\ ~Listed(seen.id, seen.now) /\ Ruled(seen.scope, seen.path, seen.now)
    /\ seen.path \in DOMAIN RuleOf(seen.scope).path
    /\ seen.out[1] # StaticCost(seen.scope, seen.path)
    /\ seen.out[1] > 0

(* what limit_args returns when no dynamic entry is applied *)
StaticOut == <<StaticCost(seen.scope, seen.path)>> \o Quad(RuleOf(seen.scope).limit)

(* C9 as stated: an entry with expiry <= now is not reported by            *)
(* redlist(now) or redrules(now) and not applied by limit_args(now, ...).  *)
C9_ExpiredAtNowHidden ==
    /\ seen.op = "redlist" =>
           \A k \in DOMAIN dyn_rules.redlist :
               dyn_rules.redlist[k] <= seen.now => k \notin DOMAIN seen.out
    /\ seen.op = "redrules" =>
           \A k \in DOMAIN dyn_rules.redrules :
               dyn_rules.redrules[k][2] <= seen.now => k \notin DOMAIN seen.out
    /\ (/\ ResolvedId
        /\ \A k \in DOMAIN dyn_rules.redlist : dyn_rules.redlist[k] <= seen.now
        /\ \A k \in DOMAIN dyn_rules.redrules : dyn_rules.redrules[k][2] <= seen.now)
           => seen.out = StaticOut

(* C9, amended: an entry with expiry < now is not reported by redlist(now) *)
(* or redrules(now) and not applied by limit_args(now, ...); an entry      *)
(* whose expiry equals now is still reported and applied by all three.     *)
C9_ExpiredBeforeNowHidden ==
    /\ seen.op = "redlist" =>
           \A k \in DOMAIN dyn_rules.redlist :
               /\ dyn_rules.redlist[k] < seen.now => k \notin DOMAIN seen.out
               /\ dyn_rules.redlist[k] = seen.now => k \in DOMAIN seen.out
    /\ seen.op = "redrules" =>
           \A k \in DOMAIN dyn_rules.redrules :
               /\ dyn_rules.redrules[k][2] < seen.now => k \notin DOMAIN seen.out
               /\ dyn_rules.redrules[k][2] = seen.now => k \in DOMAIN seen.out
    /\ ResolvedId =>
           /\ ((\A k \in DOMAIN dyn_rules.redlist : dyn_rules.redlist[k] < seen.now)
               /\ (\A k \in DOMAIN dyn_rules.redrules : dyn_rules.redrules[k][2] < seen.now))
                  => seen.out = StaticOut
           /\ (seen.id \in DOMAIN dyn_rules.redlist /\ dyn_rules.redlist[seen.id] = seen.now)
                  => seen.out = <<1>> \o Quad(rr.floor)

(* redlist(now) read while one entry expired before now and another expires at now *)
C9_Witness ==
    /\ seen.op = "redlist"
    /\ \E k \in DOMAIN dyn_rules.redlist : dyn_rules.redlist[k] < seen.now
    /\ \E k \in DOMAIN dyn_rules.redlist : dyn_rules.redlist[k] = seen.now
    /\ DOMAIN seen.out # DOMAIN dyn_rules.redlist
    /\ seen.out # EmptyMap

(* C10: right after dyn_update(now, c, A, B) neither the stored redlist    *)
(* nor the stored redrules holds an entry with expiry <= now.              *)
C10_NoStaleAfterUpdate ==
    seen.op = "dyn_update" =>
        /\ \A k \in DOMAIN dyn_rules.redlist : dyn_rules.redlist[k] > seen.now
        /\ \A k \in DOMAIN dyn_rules.redrules : dyn_rules.redrules[k][2] > seen.now

(* an update that finds a stored entry expired and is handed a stale entry *)
C10_Witness ==
    /\ seen.op = "dyn_update"
    /\ \E k \in DOMAIN seen.pre.redlist : seen.pre.redlist[k] <= seen.now
    /\ \E k \in DOMAIN seen.rules : seen.rules[k][2] <= seen.now
    /\ \E k \in DOMAIN seen.pre.redlist : k \notin DOMAIN dyn_rules.redlist

(* C11: across any sequence of dyn_update calls redlist_cursor never       *)
(* decreases: after dyn_update(now, c, ...) it is the greater of the       *)
(* cursor before the call and c, so it always equals the largest cursor    *)
(* ever passed, or 0 before any call.                                      *)
C11_CursorIsLargestPassed ==
    /\ dyn_rules.redlist_cursor = passed
    /\ seen.op = "dyn_update" =>
           /\ dyn_rules.redlist_cursor >= seen.pre.redlist_cursor
           /\ dyn_rules.redlist_cursor >= seen.cursor
           /\ dyn_rules.redlist_cursor \in {seen.pre.redlist_cursor, seen.cursor}

(* an update handed a cursor below the stored one *)
C11_Witness ==
    /\ seen.op = "dyn_update"
    /\ seen.cursor < seen.pre.redlist_cursor
    /\ dyn_rules.redlist_cursor = seen.pre.redlist_cursor

----------------------------------------------------------------------------
(* The limiter service: claims C12-C16.                                    *)

(* the five conditions on the resolved LimitArgs *)
AllHold(a) ==
    /\ a[1] >= 1
    /\ a[1] <= a[2]
    /\ 0 < a[3] /\ a[3] <= 60000
    /\ (a[4] = 0 \/ a[1] <= a[4])
    /\ (a[5] = 0 \/ a[5] <= a[3])

(* the request made no backend call and changed no backend state *)
NoBackendCall == ~req.sent /\ ~req.wire /\ ~req.effect /\ ~call.made

(* C12: if the resolved LimitArgs violate any of quantity >= 1, quantity   *)
(* <= maxCount, 0 < periodMs <= 60000, (maxBurst = 0 or quantity <=        *)
(* maxBurst), (burstPeriodMs = 0 or burstPeriodMs <= periodMs), `limiting` *)
(* returns LimitResult(0, 0) without invoking the backend script and no    *)
(* backend state changes; if all hold, the backend script is invoked.      *)
C12_InvalidArgsNoCall ==
    req.pc # "idle" =>
        IF AllHold(req.args)
        THEN req.sent
        ELSE req.pc = "answered" /\ req.rt = <<0, 0>> /\ NoBackendCall

(* a request whose quantity is above maxBurst, answered while the key      *)
(* holds the count of earlier requests                                     *)
C12_Witness ==
    /\ req.pc = "answered"
    /\ req.args[4] > 0 /\ req.args[1] > req.args[4]
    /\ req.outcome = "invalid"
    /\ key.present

(* C13: if the backend call of a /limiting request returns an error or     *)
(* does not complete within the 100 ms deadline, the request is answered   *)
(* as admitted: retry = 0, reset = 0, limit = maxCount and remaining =     *)
(* maxCount.                                                               *)
C13_FailOpen ==
    (req.pc = "answered" /\ req.outcome \in {"error", "timeout"}) =>
        req.resp = [limit |-> req.args[2], remaining |-> req.args[2],
                    reset |-> 0, retry |-> 0]

(* a call that ran on the backend and whose reply came after the deadline *)
C13_Witness ==
    /\ req.pc = "answered"
    /\ req.outcome = "timeout"
    /\ req.effect
    /\ req.args[2] > 0

(* C14 as stated: a /limiting request that exceeds its 100 ms deadline and *)
(* is answered fail-open does not increment the counter of its key: the    *)
(* abandoned backend call has no effect on the key's c, b, t.              *)
C14_TimeoutLeavesCounter ==
    (req.pc = "answered" /\ req.outcome = "timeout") => ~req.effect

(* C15: for a request whose resolved args have maxCount M and whose        *)
(* limiter result is (count, waitMs), the response has limit = M,          *)
(* remaining = max(0, M - count), retry = waitMs, and reset =              *)
(* floor((now + waitMs) / 1000) when waitMs > 0 and 0 otherwise; so reset  *)
(* > 0 exactly when retry > 0.                                             *)
C15_ResponseFields ==
    req.pc = "answered" =>
        LET M == req.args[2]
            count == req.rt[1]
            waitMs == req.rt[2]
        IN  /\ req.resp.limit = M
            /\ req.resp.remaining = (IF M - count > 0 THEN M - count ELSE 0)
            /\ req.resp.retry = waitMs
            /\ req.resp.reset = (IF waitMs > 0 THEN (req.ts + waitMs) \div 1000 ELSE 0)
            /\ (req.resp.reset > 0) <=> (req.resp.retry > 0)

(* a rejected request whose wait ends in the next second *)
C15_Witness ==
    /\ req.pc = "answered"
    /\ req.outcome = "ok"
    /\ req.rt[2] > 0
    /\ req.resp.reset > req.ts \div 1000
    /\ req.resp.remaining < req.resp.limit

(* C16: for a request with an empty id, limit_args returns (0, 0, 0, 0, 0) *)
(* whatever the scope, path and dynamic state, and the service answers     *)
(* (limit = 0, remaining = 0, reset = 0, retry = 0) without invoking the   *)
(* backend script or changing any counter.                                 *)
C16_EmptyIdSentinel ==
    (req.pc # "idle" /\ req.id = "") =>
        /\ req.args = <<0, 0, 0, 0, 0>>
        /\ req.pc = "answered"
        /\ req.resp = [limit |-> 0, remaining |-> 0, reset |-> 0, retry |-> 0]
        /\ NoBackendCall

(* an empty id on a path with a live redrule, while the key holds a count *)
C16_Witness ==
    /\ req.pc = "answered"
    /\ req.id = ""
    /\ Ruled(req.scope, req.path, req.ts)
    /\ key.present

----------------------------------------------------------------------------
(* The RwLock of dyn_rules: claim C17.                                     *)

(* C17: every resolver read (limit_args, redlist, redrules, the sync       *)
(* worker's cursor read) running concurrently with a dyn_update observes   *)
(* the triple (redlist, redrules, cursor) entirely as it was before that   *)
(* dyn_update or entirely as it is after it: while a read holds its guard  *)
(* no dyn_update is between its first and its last statement, and every    *)
(* field the read has seen is the stored one; and when dyn_update is       *)
(* through, the triple is the result of the whole update.                  *)
C17_ReadsSeeWholeUpdates ==
    /\ rd.pc = "reading" =>
           /\ wr.pc = "idle"
           /\ \A f \in DOMAIN rd.obs : rd.obs[f] = dyn_rules[f]
    /\ wr.pc = "done" =>
           dyn_rules = dyn_update(wr.pre, wr.now, wr.cursor, wr.list, wr.rules)

(* limit_args has read both maps after an update that changed the cursor   *)
(* and both maps                                                           *)
C17_Witness ==
    /\ rd.pc = "reading"
    /\ rd.op = "limit_args"
    /\ rd.left = <<>>
    /\ dyn_rules.redlist_cursor > 0
    /\ dyn_rules.redlist # EmptyMap
    /\ dyn_rules.redrules # EmptyMap

----------------------------------------------------------------------------
(* The redlist scripts: claims C18-C20.                                    *)

(* the number of members in the reply of a scan, the i-th member and the   *)
(* score that follows it                                                   *)
Returned(data) == IF Len(data) = 0 THEN 0 ELSE (Len(data) - 1) \div 2
MemberAt(data, i) == data[2 * i]
TtlAt(data, i) == data[2 * i + 1]

(* C18 as stated: redlist_scan called by the sync worker with cursor C     *)
(* returns only members whose cursor-score is >= C (at most 10 000, in     *)
(* ascending cursor-score order), each followed by its ttl-score, preceded *)
(* by newCursor = the cursor-score of the last returned member; when no    *)
(* member has cursor-score >= C it returns an empty list.                  *)
C18_ScanFromCursor ==
    lcall.fn = "redlist_scan" =>
        LET data == lcall.data
            n == Returned(data)
        IN  /\ n <= 10000
            /\ \A i \in 1..n :
                   /\ MemberAt(data, i) \in DOMAIN lc
                   /\ lc[MemberAt(data, i)] >= lcall.cursor
                   /\ TtlAt(data, i) = lt[MemberAt(data, i)]
                   /\ i < n => lc[MemberAt(data, i)] <= lc[MemberAt(data, i + 1)]
            /\ n > 0 => data[1] = lc[MemberAt(data, n)]
            /\ (\A m \in DOMAIN lc : lc[m] < lcall.cursor) => Len(data) = 0

(* C19 as stated: across the worker's successive scans, each issued with   *)
(* the cursor derived from the previous scan's result, a member whose      *)
(* cursor-score has not changed since a scan returned it is never returned *)
(* again.                                                                  *)
C19_NeverReturnedAgain ==
    lcall.fn = "redlist_scan" => lcall.again = {}

(* the members supplied to the script call *)
Supplied(args) == {args[i] : i \in Odd(args)}

(* C20: every redlist_add script call, also one with empty args, removes   *)
(* from NS:LC and NS:LT every member whose ttl-score is < ts and then      *)
(* stores each supplied member with ttl-score ts + ttlMs; after the call   *)
(* no member with ttl-score < ts remains in either set, so a later scan no *)
(* longer returns it.                                                      *)
C20_AddSweepsStale ==
    lcall.fn = "redlist_add" =>
        /\ \A m \in Stale(lcall.pre_lt, lcall.ts) \ Supplied(lcall.args) :
               /\ m \notin DOMAIN lc
               /\ m \notin DOMAIN lt
               /\ \A i \in 1..Returned(redlist_scan(lc, lt, <<0, 0>>)) :
                      MemberAt(redlist_scan(lc, lt, <<0, 0>>), i) # m
        /\ \A i \in Odd(lcall.args) : lt[lcall.args[i]] = lcall.ts + lcall.args[i + 1]
        /\ \A m \in DOMAIN lt : lt[m] >= lcall.ts
        /\ \A m \in DOMAIN lc : m \in DOMAIN lt /\ lt[m] >= lcall.ts

(* the sweep call of the worker, with empty args, has removed a member     *)
(* that a scan had returned                                                *)
C20_Witness ==
    /\ lcall.fn = "redlist_add"
    /\ lcall.args = <<>>
    /\ Stale(lcall.pre_lt, lcall.ts) # {}
    /\ \E m \in Stale(lcall.pre_lt, lcall.ts) : m \notin DOMAIN lc

----------------------------------------------------------------------------
(* The `limiting` script: claims C25-C27.                                  *)

(* the arguments of the last call, as the script reads them *)
CallQuantity == ArgOr(call.args, 1, 1)
CallMaxCount == ArgOr(call.args, 2, 0)
CallPeriod == ArgOr(call.args, 3, 0)
CallMaxBurst == ArgOr(call.args, 4, 0)
CallBurstPeriod == ArgOr(call.args, 5, DefaultBurstPeriod)

(* the last call ran on an existing key with maxBurst > 0 *)
BurstCall == call.made /\ call.pre.present /\ CallMaxBurst > 0

(* what C25 says of the call *)
BurstRule ==
    IF call.pre.t + CallBurstPeriod <= clock
    THEN call.result[2] = 0 =>
            /\ key.present
            /\ key.b = CallQuantity
            /\ key.t = clock
            /\ key.c = call.pre.c + CallQuantity
            /\ key.exp = call.pre.exp
    ELSE call.pre.b + CallQuantity > CallMaxBurst =>
            /\ call.result = <<call.pre.c, call.pre.t + CallBurstPeriod - clock>>
            /\ 0 < call.result[2]
            /\ call.result[2] <= CallBurstPeriod
            /\ key = call.pre

(* C25 as stated: on an existing key with maxBurst > 0, at script time ts: *)
(* if t + burstPeriodMs <= ts the burst window restarts (on commit b :=    *)
(* quantity, t := ts), any number of times within one period and without   *)
(* changing c's window; otherwise, if b + quantity > maxBurst, the call is *)
(* rejected with the unchanged count and waitMs = t + burstPeriodMs - ts,  *)
(* 0 < waitMs <= burstPeriodMs.                                            *)
C25_BurstRestartOrReject == BurstCall => BurstRule

(* C25, amended: as stated, for a call with quantity <= maxCount; a call   *)
(* with quantity > maxCount returns (quantity, 1) before the burst window  *)
(* is looked at.                                                           *)
C25_BurstRestartOrRejectValid == (BurstCall /\ CallQuantity <= CallMaxCount) => BurstRule

(* the burst window restarts for the second time in the life of the key *)
C25_Witness ==
    /\ BurstCall
    /\ CallQuantity <= CallMaxCount
    /\ call.pre.t > born.at
    /\ call.pre.t + CallBurstPeriod <= clock
    /\ call.result[2] = 0
    /\ key.t = clock

(* the last call ran on an existing key, passed the burst check and found  *)
(* c + quantity > maxCount                                                 *)
PeriodFullCall ==
    /\ call.made
    /\ call.pre.present
    /\ \/ CallMaxBurst = 0
       \/ call.pre.t + CallBurstPeriod <= clock
       \/ call.pre.b + CallQuantity <= CallMaxBurst
    /\ call.pre.c + CallQuantity > CallMaxCount

(* what C26 says of the call, with the period the wait is bounded by *)
PeriodRule(periodMs) ==
    IF call.pre.exp - clock > 0
    THEN /\ call.result = <<call.pre.c, call.pre.exp - clock>>
         /\ call.result[2] <= periodMs
         /\ key = call.pre
    ELSE /\ call.result = <<call.pre.c, 1>>
         /\ key = Absent

(* C26 as stated: on an existing key holding count c, a call with c +      *)
(* quantity > maxCount that passes the burst check is rejected with the    *)
(* unchanged count c and waitMs = the key's remaining TTL, 0 < waitMs <=   *)
(* periodMs, also when maxCount differs from that of earlier calls; only   *)
(* if the remaining TTL reads <= 0 is waitMs 1 and the key deleted.        *)
C26_PeriodFullReject == PeriodFullCall => PeriodRule(CallPeriod)

(* C26, amended: as stated, for a call with quantity <= maxCount, and with *)
(* waitMs bounded by the periodMs of the call that created the key, which  *)
(* set its TTL.                                                            *)
C26_PeriodFullRejectValid ==
    (PeriodFullCall /\ CallQuantity <= CallMaxCount) =>
        PeriodRule(IF key.present THEN born.period ELSE 0)

(* a rejection by a call whose maxCount is below the count the key holds *)
C26_Witness ==
    /\ PeriodFullCall
    /\ CallQuantity <= CallMaxCount
    /\ call.pre.c > CallMaxCount
    /\ call.result[2] > 1
    /\ key = call.pre

(* the last call had valid args (quantity <= maxCount) and found no key *)
AbsentKeyCall ==
    /\ call.made
    /\ ~call.pre.present
    /\ CallQuantity <= CallMaxCount

----------------------------------------------------------------------------
(* dyn_update: claim C28 *)

(* the stored entries of map `old` (expiry read by Exp) that are live at   *)
(* now and whose key is not in the delta are in `new` unchanged, and the   *)
(* delta's entries live at now are in `new` with the delta's value         *)
Merged(old, delta, new, now, Exp(_)) ==
    /\ \A k \in DOMAIN old :
           (Exp(old[k]) > now /\ k \notin DOMAIN delta) =>
               (k \in DOMAIN new /\ new[k] = old[k])
    /\ \A k \in DOMAIN delta :
           Exp(delta[k]) > now => (k \in DOMAIN new /\ new[k] = delta[k])

ListExpiry(v) == v
RuleExpiry(v) == v[2]

(* C28: dyn_update(now, c, A, B) merges rather than replaces: every stored *)
(* redlist or redrule entry with expiry > now whose key is absent from the *)
(* delta is kept unchanged, and an entry whose key is in the delta with    *)
(* expiry > now takes the delta's value.                                   *)
C28_DynUpdateMerges ==
    seen.op = "dyn_update" =>
        /\ Merged(seen.pre.redlist, seen.list, dyn_rules.redlist, seen.now, ListExpiry)
        /\ Merged(seen.pre.redrules, seen.rules, dyn_rules.redrules, seen.now, RuleExpiry)

(* an update that kept a live id, and one that overwrote a live id's expiry *)
C28_Witness ==
    /\ seen.op = "dyn_update"
    /\ \E k \in DOMAIN seen.pre.redlist :
           /\ seen.pre.redlist[k] > seen.now
           /\ k \notin DOMAIN seen.list
           /\ k \in DOMAIN dyn_rules.redlist
    /\ \E k \in DOMAIN seen.list : k \in DOMAIN dyn_rules.redlist

----------------------------------------------------------------------------
(* The redrules scripts called by clients, from an empty backend. *)
InitRedrules ==
    /\ InitLimiter
    /\ InitHist
    /\ rr = RedRulesNew(ConfFile)
    /\ InitResolver
    /\ req = NoReq
    /\ InitLock
    /\ InitList
    /\ InitSync

NextRedrules == RulesAdd \/ RulesAll \/ ReplyRules \/ TickRules

SpecRedrules == InitRedrules /\ [][NextRedrules]_vars

(* C21: every redrules_add script call, also one with empty args, removes  *)
(* every entry whose expiry is < ts from the ttl index (NS:RT) and from    *)
(* the data hash (NS:RD), and, when args are given, stores the tuple       *)
(* [scope, path, quantity, ts + ttlMs]; after the call redrules_all        *)
(* returns no tuple with expiry < ts and returns the tuple just stored.    *)
C21_AddSweepsAndStores ==
    rcall.fn = "redrules_add" =>
        /\ \A id \in DOMAIN rtab.rt : rtab.rt[id] >= rcall.ts
        /\ \A tuple \in redrules_all(rtab) : tuple[4] >= rcall.ts
        /\ rcall.args # <<>> =>
              <<rcall.args[1], rcall.args[2], rcall.args[3], rcall.ts + rcall.args[4]>>
                  \in redrules_all(rtab)

----------------------------------------------------------------------------
(* The sync worker with its backend: clients add one redlist id and one    *)
(* redrule, the library is loaded and lost, backend calls fail, and the    *)
(* token is cancelled.                                                     *)

SyncAddArgs == {<<"u1", MaxTtl>>}
SyncRuleArgs == {<<"core", "GET /a", 3, MaxTtl>>}

(* POST /redlist and POST /redrules while the library is loaded *)
SyncPostRedlist ==
    /\ fnlib # "none"
    /\ \E args \in SyncAddArgs : RedlistAddCall(args)
    /\ UNCHANGED <<load, limVars, histVars, resVars, svcVars, lockVars, syncVars>>

SyncPostRedrules ==
    /\ fnlib # "none"
    /\ \E args \in SyncRuleArgs : RedrulesAddCall(args)
    /\ UNCHANGED <<fnlib, running, stop, page, nap, limVars, histVars, resVars, svcVars, lockVars,
                   listVars>>

TickSync ==
    /\ rcall = NoRCall
    /\ TickList

InitSyncSpec ==
    /\ InitLimiter
    /\ InitHist
    /\ rr = RedRulesNew(ConfFile)
    /\ InitResolver
    /\ req = NoReq
    /\ InitLock
    /\ InitList
    /\ rtab = [rt |-> EmptyMap, rd |-> EmptyMap]
    /\ rcall = NoRCall
    /\ fnlib \in Libs
    /\ running = 0
    /\ stop = FALSE
    /\ page = [limit |-> ScanLimit, count |-> REDLIST_SCAN_COUNT]
    /\ nap = TRUE

NextSync ==
    \/ SyncPostRedlist
    \/ SyncPostRedrules
    \/ InitFnCall
    \/ FlushFn
    \/ LoadStart
    \/ JobRulesSweep
    \/ LoadScan
    \/ LoadSweep
    \/ JobFail
    \/ JobError
    \/ Reload
    \/ Cancel
    \/ WorkerStop
    \/ ReplyList
    \/ ReplyRules
    \/ TickSync

SpecSync == InitSyncSpec /\ [][NextSync]_vars

(* C24: init_redlimit_fn is idempotent: called when the library is        *)
(* already loaded, and the backend serves the load, it returns success     *)
(* (the reply "already exists" is not an error) and leaves the loaded      *)
(* library unchanged, so consecutive calls all succeed; any other error    *)
(* reply from the load is returned as an error.                            *)
C24_InitIdempotent ==
    rcall.fn = "init_redlimit_fn" =>
        /\ (rcall.pre # "none" /\ rcall.outcome = "served") =>
              /\ rcall.reply.error
              /\ rcall.reply.text = AlreadyExists
              /\ rcall.ok
        /\ rcall.pre # "none" => rcall.post = rcall.pre
        /\ (rcall.reply.sent /\ rcall.reply.error /\ rcall.reply.text # AlreadyExists) =>
              ~rcall.ok

(* a call that found this build's library loaded and returned Ok *)
C24_Witness ==
    /\ rcall.fn = "init_redlimit_fn"
    /\ rcall.pre = "redlimit"
    /\ rcall.reply.text = AlreadyExists
    /\ rcall.ok
    /\ fnlib = "redlimit"

----------------------------------------------------------------------------
(* The sync worker: claims C22, C23, C29 *)

(* the worker is inside redlimit_sync_job *)
InJob == load.pc \in {"rsweep", "scan", "sweep"}

(* C22: the sync worker never runs two jobs at once: a job starts only     *)
(* from the select, after the previous one has returned; and it enters     *)
(* Cancelled only from the select: a step of a running job leads to the    *)
(* job's next call or to its return, never to Cancelled, whether or not    *)
(* the stop signal has been raised.                                        *)
C22_OneTickNoInterrupt ==
    /\ [](running <= 1)
    /\ [][/\ running' > running => (running = 0 /\ load.pc = "idle")
          /\ (load'.pc = "cancelled" /\ load.pc # "cancelled") => (load.pc = "idle" /\ stop)
          /\ InJob => load'.pc \in {"rsweep", "scan", "sweep", "idle", "failed"}]_vars

(* a job that returned Ok and called dyn_update after the signal was raised *)
C22_Witness ==
    /\ stop
    /\ lcall # NoLCall
    /\ lcall.job.ended
    /\ lcall.job.rt # EmptyMap
    /\ dyn_rules.redlist = lcall.job.rt
    /\ lcall.job.before.redlist = EmptyMap

(* C23: when a job fails with a backend error the worker does not stop:    *)
(* the resolver's redlist, redrules and cursor are as they were before the *)
(* job, and the worker goes back to the select; when the error text        *)
(* contains "Function not found" it first reloads the library, and goes    *)
(* back to the select whatever the reload returns.                         *)
C23_ErrorsDoNotStop ==
    /\ [](load.pc = "failed" => dyn_rules = load.before)
    /\ [][/\ (load.pc = "failed" /\ load' # load) =>
                /\ load'.pc = IF load.err = FnNotFound THEN "reload" ELSE "idle"
                /\ dyn_rules' = dyn_rules
          /\ (load.pc = "reload" /\ load' # load) =>
                /\ load' = NoLoad
                /\ dyn_rules' = dyn_rules]_vars

(* the worker reloads the library after a job that failed with "Function   *)
(* not found", an earlier job having loaded an id                          *)
C23_Witness ==
    /\ load.pc = "reload"
    /\ fnlib = "none"
    /\ dyn_rules.redlist # EmptyMap

(* the last backend call ended a job that returned Ok *)
JobEnded == lcall # NoLCall /\ lcall.job.ended

(* C29: in each job that returns Ok, dyn_update is called, with the job's  *)
(* now, the cursor returned by the redlist scan and the loaded entries     *)
(* that have not expired, if and only if one of the two loaded deltas is   *)
(* not empty; when both are empty the job leaves the resolver's redlist,   *)
(* redrules and cursor unchanged.                                          *)
C29_UpdateIffDelta ==
    JobEnded =>
        LET job == lcall.job
        IN  /\ \A m \in DOMAIN job.rt : job.rt[m] > job.now
            /\ \A k \in DOMAIN job.rules : job.rules[k][2] > job.now
            /\ dyn_rules =
                  IF job.rt # EmptyMap \/ job.rules # EmptyMap
                  THEN dyn_update(job.before, job.now, job.cursor, job.rt, job.rules)
                  ELSE job.before

(* a job that loaded a redrule and no redlist id, and stored the rule *)
C29_Witness ==
    /\ JobEnded
    /\ lcall.job.rt = EmptyMap
    /\ lcall.job.rules # EmptyMap
    /\ lcall.job.before.redrules = EmptyMap
    /\ dyn_rules.redrules = lcall.job.rules

----------------------------------------------------------------------------
(* redlist_load with the page sizes scaled down to PageSize: clients add   *)
(* one id or two, and the worker loads them.                               *)

ScanAddArgs == {<<"u1", MaxTtl>>, <<"u1", MaxTtl, "u2", MaxTtl>>}

ScanPostRedlist ==
    /\ \E args \in ScanAddArgs : RedlistAddCall(args)
    /\ UNCHANGED <<load, limVars, histVars, resVars, svcVars, lockVars, syncVars>>

InitScan ==
    /\ InitLimiter
    /\ InitHist
    /\ rr = RedRulesNew(ConfFile)
    /\ InitResolver
    /\ req = NoReq
    /\ InitLock
    /\ InitList
    /\ rtab = [rt |-> EmptyMap, rd |-> EmptyMap]
    /\ rcall = NoRCall
    /\ fnlib = "redlimit"
    /\ running = 0
    /\ stop = FALSE
    /\ page = [limit |-> PageSize, count |-> PageSize]
    /\ nap = TRUE

NextScan ==
    \/ ScanPostRedlist
    \/ LoadStart
    \/ LoadScan
    \/ LoadSweep
    \/ ReplyList
    \/ TickList

SpecScan == InitScan /\ [][NextScan]_vars

(* The worker's task is polled whenever a reply it awaits has arrived, and *)
(* the backend serves every caller in turn: the worker's call is not kept  *)
(* waiting for ever by the calls of other clients.                         *)
FairScan ==
    /\ SpecScan
    /\ SF_vars(LoadScan)
    /\ SF_vars(LoadSweep)
    /\ WF_vars(ReplyList)

(* C30: redlist_load terminates for every backend redlist content and      *)
(* every starting cursor: its scan loop issues finitely many redlist_scan  *)
(* calls, so a job that has entered the loop, and whose backend calls      *)
(* return, leaves it.                                                      *)
C30_LoadTerminates == (load.pc = "scan") ~> (load.pc # "scan")

----------------------------------------------------------------------------
(* The counters of a key used with one fixed LimitArgs: claim C33 *)

(* C33: for a key only ever used with one fixed valid tuple (q, M, P, B,   *)
(* Pb), whenever the key exists the stored count c is the sum of q over    *)
(* the calls admitted since the key was created, q <= c <= M, and when     *)
(* B > 0 the stored burst count satisfies q <= b <= B and b <= c.          *)
C33_CountIsSumAdmitted ==
    key.present =>
        /\ key.c = lifeAdm
        /\ params[1] <= key.c
        /\ key.c <= params[2]
        /\ params[4] > 0 =>
              /\ params[1] <= key.b
              /\ key.b <= params[4]
              /\ key.b <= key.c

(* a key that admitted two calls, its burst window restarted by the second *)
C33_Witness ==
    /\ key.present
    /\ params[4] > 0
    /\ key.c = 2 * params[1]
    /\ key.b = params[1]
    /\ key.t > born.at

----------------------------------------------------------------------------
(* The retry delay of a rejected call: claim C34 *)

(* C34: a call on K with valid args that is repeated, with no other call   *)
(* on K in between, at or after the time the rejection named (the time of  *)
(* the rejection plus its waitMs) is admitted.                             *)
C34_RetryHonoured == retry.judged # "broken"

----------------------------------------------------------------------------
(* The quantity limit_args resolves: claim C36 *)

(* C36: for every non-empty id and every resolver state, limit_args        *)
(* returns a quantity of at least 1, whether it comes from the floor rule, *)
(* a live redrule, a per-path cost or the rule default.                    *)
C36_QuantityPositive == ResolvedId => seen.out[1] >= 1

----------------------------------------------------------------------------
(* LimitArgs with maxBurst = 0: claim C35 *)

(* The same LimitArgs with burstPeriodMs = 0. *)
NoBurstPeriod(a) == <<a[1], a[2], a[3], a[4], 0>>

(* C35: when maxBurst is 0 every call gives the result and the stored      *)
(* count that the same call with burstPeriodMs = 0 gives, whatever the     *)
(* value of burstPeriodMs; the burst fields the two runs store are never   *)
(* read with no burst limit, so equal steps make equal sequences.          *)
C35_ZeroBurstIgnoresPeriod ==
    [][(params # NoParams /\ params[4] = 0 /\ ~call.made /\ call'.made)
        => LET out == limiting(key, clock, FcallArgs(NoBurstPeriod(params)))
           IN  /\ call'.result = out.result
               /\ key'.present = out.key.present
               /\ key'.c = out.key.c
               /\ key'.exp = out.key.exp]_vars

----------------------------------------------------------------------------
(* The order of the cursor-scores redlist_add gives: claim C32 *)

(* A redlist_add call with members takes this step. *)
AddStep == lcall = NoLCall /\ lcall' # NoLCall /\ lcall'.fn = "redlist_add" /\ lcall'.args # <<>>

(* C32: the cursor-scores one call gives increase strictly with the        *)
(* position of the member, and each of them is strictly greater than every *)
(* cursor-score an earlier call gave (the scores the set holds before the  *)
(* call).                                                                  *)
C32_CursorScoresMonotonic ==
    [][AddStep =>
        LET args == lcall'.args
        IN  /\ \A i, j \in Odd(args) :
                   (i < j /\ args[i] # args[j]
                      /\ ArgAt(args, args[i]) = i /\ ArgAt(args, args[j]) = j)
                       => lc'[args[i]] < lc'[args[j]]
            /\ \A i \in Odd(args) : \A n \in DOMAIN lc : lc'[args[i]] > lc[n]]_vars

----------------------------------------------------------------------------
(* The end of the worker: claim C31 *)

(* SpecStop: the worker with the scaled page sizes of SpecScan, and its    *)
(* token.                                                                  *)
NextStop ==
    \/ ScanPostRedlist
    \/ LoadStart
    \/ LoadScan
    \/ LoadSweep
    \/ ReplyList
    \/ TickList
    \/ Cancel
    \/ WorkerStop

SpecStop == InitScan /\ [][NextStop]_vars

(* The backend answers each call of the job, and the runtime polls the     *)
(* worker's task once the token is cancelled.                              *)
FairStop ==
    /\ SpecStop
    /\ SF_vars(LoadScan)
    /\ SF_vars(LoadSweep)
    /\ WF_vars(ReplyList)
    /\ WF_vars(WorkerStop)

(* C31: once the token is cancelled the worker eventually is Cancelled,    *)
(* the backend calls returning; and a worker that entered its select with  *)
(* the token already cancelled starts no tick.                             *)
C31_CancelEnds ==
    /\ stop ~> (load.pc = "cancelled")
    /\ [][(InSelect(load) /\ ~nap) => load'.pc \in {"idle", "cancelled"}]_vars

----------------------------------------------------------------------------
(* From the backend's redlist to the resolver: claim C37 *)

(* SpecTicks: the worker's ticks with the build's page sizes, among        *)
(* clients' redlist_add calls.                                             *)
NextTicks ==
    \/ ScanPostRedlist
    \/ LoadStart
    \/ LoadScan
    \/ LoadSweep
    \/ ReplyList
    \/ TickList

SpecTicks == InitRedlist /\ [][NextTicks]_vars

(* The worker keeps completing ticks: the sleep elapses, the backend       *)
(* answers each call of the job; a client's call can occupy the backend in *)
(* between.                                                                *)
FairTicks ==
    /\ SpecTicks
    /\ SF_vars(LoadStart)
    /\ SF_vars(LoadScan)
    /\ SF_vars(LoadSweep)
    /\ WF_vars(ReplyList)

(* The backend's redlist holds id with an expiry beyond every tick. *)
WrittenForLong(id) == id \in DOMAIN lt /\ id \in DOMAIN lc /\ lt[id] > MaxListTime

(* The resolver holds id with the backend's expiry and answers the floor   *)
(* rule for it.                                                            *)
FloorFor(id) ==
    /\ Listed(id, clock)
    /\ dyn_rules.redlist[id] = lt[id]
    /\ limit_args(rr, dyn_rules, clock, "core", "GET /a", id) = <<1>> \o Quad(rr.floor)

====
